---- MODULE Spec2Model ----
(***************************************************************************)
(* A model of the PyEMMA tutorial notebooks as programs run by a Jupyter   *)
(* kernel.                                                                 *)
(*                                                                         *)
(* Part 1 (specification Spec) models a kernel session that executes the   *)
(* code cells of one notebook in document order, statement by statement.   *)
(* Every statement of every code cell is transcribed below with the names  *)
(* it reads, the names it binds, the objects it mutates, the data origins  *)
(* it introduces (mdshare.fetch file names, featurizer add_* calls) and    *)
(* the threading.Timer callbacks it schedules.  Calls into the libraries   *)
(* (pyemma, numpy, matplotlib, ...) are opaque: the model keeps only what  *)
(* the notebook text itself decides, namely the name bindings and the data *)
(* flow between names.                                                     *)
(*                                                                         *)
(* Part 2 (specification SpecObs) models the arithmetic the notebooks do   *)
(* themselves on per-frame observables in notebook 06 (forward models,     *)
(* boolean-mask selection, within-state means) on small exact inputs.      *)
(* The later parts each study one function or one configuration file.      *)
(***************************************************************************)
EXTENDS Integers, Sequences, FiniteSets, TLC

VARIABLES
  nb,        \* the notebook this kernel session executes
  cell,      \* index (among the code cells) of the current / next cell
  stmt,      \* index of the next statement of the running cell
  running,   \* TRUE while a cell is executing on the kernel's main thread
  ns,        \* user namespace: name -> line of the statement that bound it, 0 = unbound
  prov,      \* name -> set of data origins the bound object derives from
  errs,      \* exceptions raised so far: [ln, kind]
  timers,    \* threading.Timer objects started: [fn, ln, cell, runs]
  lastExec,  \* the notebook code executed last: [thread, ln, fn, inCell]
  disk,      \* files the run has created: [dir, name, ext, kind]
  obs        \* state of the computation a later part studies on its own

vars == <<nb, cell, stmt, running, ns, prov, errs, timers, lastExec, disk, obs>>

kernelVars == <<nb, cell, stmt, running, ns, prov, errs, timers, lastExec, disk>>

-----------------------------------------------------------------------------
(* Statements and cells.                                                   *)
(*   ln  first source line of the statement                                *)
(*   r   names the statement reads before it binds anything (names of      *)
(*       comprehension variables, lambda and function parameters and       *)
(*       builtins left out; the free names of a notebook function are read *)
(*       by the statement that calls it)                                   *)
(*   w   names the statement binds in the notebook namespace               *)
(*   m   names whose object the statement mutates (attribute assignment,   *)
(*       or a method called for its effect)                                *)
(*   o   data origins: the file name given to mdshare.fetch, the name of a *)
(*       featurizer add_* method                                           *)
(*   t   functions handed to threading.Timer(...).start()                  *)
(*   x   TRUE for the statement whose library call the notebook documents  *)
(*       as raising (cell metadata "skip": true on a complete cell)        *)

Stmt(ln, r, w) ==
  [ln |-> ln, r |-> r, w |-> w, m |-> {}, o |-> {}, t |-> {}, x |-> FALSE]

StmtFx(ln, r, w, m, o) ==
  [ln |-> ln, r |-> r, w |-> w, m |-> m, o |-> o, t |-> {}, x |-> FALSE]

StmtTimer(ln, r, t) ==
  [ln |-> ln, r |-> r, w |-> {}, m |-> {}, o |-> {}, t |-> t, x |-> FALSE]

StmtRaises(ln, r, w) ==
  [ln |-> ln, r |-> r, w |-> w, m |-> {}, o |-> {}, t |-> {}, x |-> TRUE]

\* A complete code cell of the tutorial text.
Cell(ln, stmts) ==
  [ln |-> ln, fixme |-> FALSE, sol |-> FALSE, stmts |-> stmts]

\* A hidden solution cell (metadata "solution2": "hidden", not the first).
SolutionCell(ln, stmts) ==
  [ln |-> ln, fixme |-> FALSE, sol |-> TRUE, stmts |-> stmts]

\* An unfinished exercise cell: it contains #FIXME and is no valid Python.
FixmeCell(ln) ==
  [ln |-> ln, fixme |-> TRUE, sol |-> FALSE, stmts |-> <<>>]

-----------------------------------------------------------------------------
\* Notebook "01 - Data-I/O and featurization" (src/unnamed/part_003), code cells in document order.
Notebook01 ==
  <<
    Cell(18, <<
      Stmt(19, {}, {"plt"}),
      Stmt(20, {}, {"np"}),
      Stmt(21, {}, {"mdshare"}),
      Stmt(22, {}, {"pyemma"}) >>),
    Cell(39, <<
      StmtFx(39, {"mdshare"}, {"file"}, {}, {"hmm-doublewell-2d-100k.npz"}),
      Stmt(40, {"file", "np"}, {"fh"}),
      Stmt(41, {"fh"}, {"data"}),
      Stmt(43, {"data"}, {}) >>),
    Cell(59, <<
      Stmt(59, {"data", "pyemma"}, {}) >>),
    Cell(77, <<
      Stmt(77, {"data", "pyemma"}, {"ax", "fig"}),
      StmtFx(78, {"ax"}, {}, {"ax"}, {}),
      StmtFx(79, {"ax"}, {}, {"ax"}, {}),
      StmtFx(80, {"fig"}, {}, {"fig"}, {}) >>),
    Cell(99, <<
      StmtFx(99, {"mdshare"}, {"pdb"}, {}, {"alanine-dipeptide-nowater.pdb"}),
      StmtFx(100, {"mdshare"}, {"files"}, {}, {"alanine-dipeptide-*-250ns-nowater.dcd"}),
      Stmt(101, {"pdb"}, {}),
      Stmt(102, {"files"}, {}) >>),
    Cell(118, <<
      Stmt(118, {}, {"mdtraj"}),
      Stmt(119, {}, {"nglview"}),
      Stmt(120, {}, {"TrajectoryPlayer"}),
      Stmt(121, {}, {"os"}),
      Stmt(122, {}, {"Timer"}),
      Stmt(124, {"mdtraj", "nglview", "os"}, {"widget"}),
      Stmt(126, {"TrajectoryPlayer", "widget"}, {"p"}),
      StmtFx(127, {"widget"}, {}, {"widget"}, {}),
      StmtFx(129, {"p"}, {}, {"p"}, {}),
      Stmt(130, {}, {"stop_spin"}),
      StmtTimer(132, {"Timer", "stop_spin"}, {"stop_spin"}),
      Stmt(134, {"widget"}, {}) >>),
    Cell(150, <<
      Stmt(150, {"pdb", "pyemma"}, {"feat"}) >>),
    Cell(166, <<
      StmtFx(166, {"feat"}, {}, {"feat"}, {"add_backbone_torsions"}) >>),
    Cell(182, <<
      Stmt(182, {"feat"}, {}) >>),
    Cell(198, <<
      Stmt(198, {"feat", "files", "pyemma"}, {"data"}),
      Stmt(199, {"data"}, {}) >>),
    Cell(215, <<
      Stmt(215, {"data", "np", "pyemma"}, {}) >>),
    Cell(224, <<
      Stmt(224, {"data", "np", "pyemma"}, {"ax", "fig"}),
      StmtFx(225, {"ax"}, {}, {"ax"}, {}),
      StmtFx(226, {"ax"}, {}, {"ax"}, {}),
      StmtFx(227, {"fig"}, {}, {"fig"}, {}) >>),
    Cell(245, <<
      Stmt(245, {"pdb", "pyemma"}, {"feat"}),
      StmtFx(246, {"feat"}, {}, {"feat"}, {"add_selection"}),
      Stmt(248, {"feat", "files", "pyemma"}, {"data"}),
      Stmt(250, {"feat"}, {"feat_desc"}),
      Stmt(251, {"feat_desc"}, {}) >>),
    Cell(267, <<
      Stmt(267, {"plt"}, {"ax", "fig"}),
      Stmt(268, {"ax", "data", "feat_desc", "np", "pyemma"}, {}),
      StmtFx(269, {"fig"}, {}, {"fig"}, {}) >>),
    Cell(288, <<
      Stmt(288, {"data"}, {}) >>),
    Cell(304, <<
      Stmt(304, {"feat", "files", "pyemma"}, {"data"}),
      Stmt(305, {"data"}, {}) >>),
    Cell(321, <<
      Stmt(321, {"data"}, {"data_out"}),
      Stmt(322, {"data_out"}, {}) >>),
    Cell(338, <<
      Stmt(338, {"plt"}, {"ax", "fig"}),
      Stmt(339, {"ax", "data_out", "feat_desc", "np", "pyemma"}, {}),
      StmtFx(340, {"fig"}, {}, {"fig"}, {}) >>),
    FixmeCell(370),
    SolutionCell(388, <<
      Stmt(388, {"pdb", "pyemma"}, {"feat"}),
      StmtFx(389, {"feat"}, {}, {"feat"}, {"add_distances"}),
      Stmt(391, {"feat", "files", "pyemma"}, {"data"}),
      Stmt(393, {"plt"}, {"ax", "fig"}),
      Stmt(394, {"ax", "data", "feat", "np", "pyemma"}, {}),
      StmtFx(395, {"fig"}, {}, {"fig"}, {}) >>),
    Cell(412, <<
      StmtFx(412, {"mdshare"}, {"pdb"}, {}, {"pentapeptide-impl-solv.pdb"}),
      StmtFx(413, {"mdshare"}, {"files"}, {}, {"pentapeptide-*-500ns-impl-solv.xtc"}) >>),
    Cell(429, <<
      Stmt(429, {"mdtraj", "nglview", "os"}, {"widget"}),
      Stmt(431, {"TrajectoryPlayer", "widget"}, {"p"}),
      StmtFx(432, {"widget"}, {}, {"widget"}, {"add_ball_and_stick"}),
      StmtFx(433, {"p"}, {}, {"p"}, {}),
      Stmt(434, {}, {"stop_spin"}),
      StmtTimer(436, {"Timer", "stop_spin"}, {"stop_spin"}),
      Stmt(437, {"widget"}, {}) >>),
    Cell(453, <<
      Stmt(453, {"pdb", "pyemma"}, {"feat"}),
      StmtFx(454, {"feat"}, {}, {"feat"}, {"add_backbone_torsions"}),
      StmtFx(455, {"feat"}, {}, {"feat"}, {"add_sidechain_torsions"}),
      Stmt(457, {"feat", "files", "pyemma"}, {"data"}),
      Stmt(458, {"data", "np"}, {"data_all"}),
      Stmt(460, {"feat"}, {"feat_desc"}),
      Stmt(461, {"feat_desc"}, {}) >>),
    Cell(477, <<
      Stmt(477, {"plt"}, {"ax", "fig"}),
      Stmt(478, {"ax", "data_all", "feat_desc", "pyemma"}, {}),
      StmtFx(479, {"fig"}, {}, {"fig"}, {}) >>),
    FixmeCell(502),
    SolutionCell(521, <<
      Stmt(521, {"pdb", "pyemma"}, {"feat"}),
      StmtFx(522, {"feat"}, {}, {"feat"}, {"add_distances_ca"}),
      Stmt(524, {"feat", "files", "pyemma"}, {"data"}),
      Stmt(525, {"data", "np"}, {"data_all"}),
      Stmt(527, {"plt"}, {"ax", "fig"}),
      Stmt(528, {"ax", "data_all", "feat", "pyemma"}, {}),
      StmtFx(529, {"fig"}, {}, {"fig"}, {}) >>),
    FixmeCell(550),
    SolutionCell(569, <<
      Stmt(569, {"pdb", "pyemma"}, {"feat"}),
      StmtFx(570, {"feat"}, {}, {"feat"}, {"add_residue_mindist"}),
      Stmt(572, {"feat", "files", "pyemma"}, {"data"}),
      Stmt(573, {"data", "np"}, {"data_all"}),
      Stmt(575, {"plt"}, {"ax", "fig"}),
      Stmt(576, {"ax", "data_all", "feat", "pyemma"}, {}),
      StmtFx(577, {"fig"}, {}, {"fig"}, {}) >>),
    FixmeCell(598),
    SolutionCell(617, <<
      Stmt(617, {"pdb", "pyemma"}, {"feat"}),
      StmtFx(618, {"feat"}, {}, {"feat"}, {"add_selection"}),
      Stmt(620, {"feat", "files", "pyemma"}, {"data"}),
      Stmt(621, {"data", "np"}, {"data_all"}),
      Stmt(623, {"plt"}, {"ax", "fig"}),
      Stmt(624, {"ax", "data_all", "feat", "pyemma"}, {}),
      StmtFx(625, {"fig"}, {}, {"fig"}, {}) >>),
    FixmeCell(646),
    SolutionCell(665, <<
      Stmt(665, {"pdb", "pyemma"}, {"feat"}),
      StmtFx(666, {"feat"}, {}, {"feat"}, {"add_selection"}),
      Stmt(668, {"feat", "files", "pyemma"}, {"data"}),
      Stmt(669, {"data", "np"}, {"data_all"}),
      Stmt(671, {"plt"}, {"ax", "fig"}),
      Stmt(672, {"ax", "data_all", "feat", "pyemma"}, {}),
      StmtFx(673, {"fig"}, {}, {"fig"}, {}) >>)
  >>

\* Notebook "02 - Dimension reduction and discretization" (src/unnamed/part_001), code cells in document order.
Notebook02 ==
  <<
    Cell(17, <<
      Stmt(18, {}, {"plt"}),
      Stmt(19, {}, {"np"}),
      Stmt(20, {}, {"mdshare"}),
      Stmt(21, {}, {"pyemma"}) >>),
    Cell(38, <<
      StmtFx(38, {"mdshare"}, {"file"}, {}, {"hmm-doublewell-2d-100k.npz"}),
      Stmt(39, {"file", "np"}, {"fh"}),
      Stmt(40, {"fh"}, {"data"}),
      Stmt(42, {"plt"}, {"axes", "fig"}),
      Stmt(43, {"axes", "data", "pyemma"}, {}),
      Stmt(44, {}, {"dim", "i"}),
      StmtFx(45, {"axes", "data", "i", "np"}, {}, {"axes"}, {}),
      StmtFx(46, {"axes", "dim", "i"}, {}, {"axes"}, {}),
      StmtFx(52, {"axes", "data"}, {}, {"axes"}, {}),
      StmtFx(53, {"axes"}, {}, {"axes"}, {}),
      StmtFx(54, {"axes"}, {}, {"axes"}, {}),
      StmtFx(55, {"fig"}, {}, {"fig"}, {}) >>),
    Cell(71, <<
      Stmt(71, {"data", "pyemma"}, {"cluster_kmeans"}) >>),
    Cell(87, <<
      Stmt(87, {"data", "pyemma"}, {"cluster_regspace"}) >>),
    Cell(103, <<
      Stmt(103, {"plt"}, {"axes", "fig"}),
      Stmt(104, {"axes", "cluster_kmeans", "cluster_regspace"}, {"ax", "cls"}),
      StmtFx(105, {"ax", "data"}, {}, {"ax"}, {}),
      StmtFx(106, {"ax", "cls"}, {}, {"ax"}, {}),
      StmtFx(107, {"ax"}, {}, {"ax"}, {}),
      StmtFx(108, {"ax"}, {}, {"ax"}, {}),
      StmtFx(109, {"fig"}, {}, {"fig"}, {}) >>),
    Cell(127, <<
      Stmt(127, {"cluster_kmeans"}, {}),
      Stmt(128, {"cluster_regspace"}, {}) >>),
    Cell(150, <<
      Stmt(150, {"data", "pyemma"}, {"pca"}),
      Stmt(151, {"pca"}, {"pca_out"}),
      Stmt(152, {"pca_out"}, {}) >>),
    Cell(168, <<
      Stmt(168, {"data", "pyemma"}, {"tica"}),
      Stmt(169, {"tica"}, {"tica_out"}),
      Stmt(170, {"tica_out"}, {}) >>),
    Cell(186, <<
      Stmt(186, {"plt"}, {"axes", "fig"}),
      Stmt(187, {"axes", "np", "pca_out", "pyemma", "tica_out"}, {}),
      StmtFx(191, {"axes", "data"}, {}, {"axes"}, {}),
      StmtFx(192, {"axes", "pca"}, {}, {"axes"}, {}),
      StmtFx(197, {"axes", "tica"}, {}, {"axes"}, {}),
      StmtFx(202, {"axes"}, {}, {"axes"}, {}),
      StmtFx(203, {"axes"}, {}, {"axes"}, {}),
      StmtFx(204, {"axes"}, {}, {"axes"}, {}),
      StmtFx(205, {"fig"}, {}, {"fig"}, {}) >>),
    Cell(223, <<
      Stmt(223, {"plt"}, {"ax", "fig"}),
      StmtFx(224, {"ax", "pca_out"}, {}, {"ax"}, {}),
      StmtFx(225, {"ax", "tica_out"}, {}, {"ax"}, {}),
      StmtFx(226, {"ax"}, {}, {"ax"}, {}),
      StmtFx(227, {"ax"}, {}, {"ax"}, {}),
      StmtFx(228, {"ax"}, {}, {"ax"}, {}),
      StmtFx(229, {"fig"}, {}, {"fig"}, {}) >>),
    Cell(249, <<
      Stmt(249, {"np", "pca_out"}, {"centers_pca"}),
      Stmt(250, {"centers_pca", "pca_out", "pyemma"}, {"dtrajs_pca"}),
      Stmt(251, {"dtrajs_pca"}, {}) >>),
    Cell(267, <<
      Stmt(267, {"np", "tica_out"}, {"centers_tica"}),
      Stmt(268, {"centers_tica", "pyemma", "tica_out"}, {"dtrajs_tica"}),
      Stmt(269, {"dtrajs_tica"}, {}) >>),
    Cell(286, <<
      StmtFx(286, {"mdshare"}, {"pdb"}, {}, {"alanine-dipeptide-nowater.pdb"}),
      StmtFx(287, {"mdshare"}, {"files"}, {}, {"alanine-dipeptide-*-250ns-nowater.dcd"}),
      Stmt(289, {"pdb", "pyemma"}, {"feat"}),
      StmtFx(290, {"feat"}, {}, {"feat"}, {"add_backbone_torsions"}),
      Stmt(291, {"feat", "files", "pyemma"}, {"data"}),
      Stmt(293, {"plt"}, {"axes", "fig"}),
      Stmt(294, {"axes", "data", "np", "pyemma"}, {}),
      StmtFx(295, {"axes", "data", "np"}, {}, {"axes"}, {}),
      StmtFx(296, {"axes"}, {}, {"axes"}, {}),
      StmtFx(297, {"axes"}, {}, {"axes"}, {}),
      StmtFx(298, {"fig"}, {}, {"fig"}, {}) >>),
    Cell(314, <<
      Stmt(314, {"data", "pyemma"}, {"cluster_kmeans"}),
      Stmt(315, {"data", "pyemma"}, {"cluster_regspace"}),
      Stmt(317, {"plt"}, {"axes", "fig"}),
      Stmt(318, {"axes", "cluster_kmeans", "cluster_regspace"}, {"ax", "cls"}),
      StmtFx(319, {"ax", "data", "np"}, {}, {"ax"}, {}),
      StmtFx(320, {"ax", "cls"}, {}, {"ax"}, {}),
      StmtFx(321, {"ax"}, {}, {"ax"}, {}),
      StmtFx(322, {"ax"}, {}, {"ax"}, {}),
      StmtFx(323, {"fig"}, {}, {"fig"}, {}) >>),
    FixmeCell(346),
    SolutionCell(365, <<
      Stmt(365, {"pdb", "pyemma"}, {"feat"}),
      StmtFx(366, {"feat"}, {}, {"feat"}, {"add_selection"}),
      Stmt(367, {"feat", "files", "pyemma"}, {"data"}),
      Stmt(369, {"feat"}, {}),
      Stmt(371, {"plt"}, {"ax", "fig"}),
      Stmt(372, {"ax", "data", "feat", "np", "pyemma"}, {}),
      StmtFx(373, {"fig"}, {}, {"fig"}, {}) >>),
    Cell(389, <<
      Stmt(389, {"data", "pyemma"}, {"pca"}),
      Stmt(390, {"np", "pca"}, {"pca_all"}),
      Stmt(392, {"plt"}, {"axes", "fig"}),
      Stmt(393, {"axes", "pca", "pca_all", "pyemma"}, {}),
      StmtFx(395, {"axes", "pca_all"}, {}, {"axes"}, {}),
      Stmt(396, {"axes", "pca_all", "pyemma"}, {}),
      Stmt(397, {"axes"}, {"ax"}),
      StmtFx(398, {"ax"}, {}, {"ax"}, {}),
      StmtFx(399, {"ax"}, {}, {"ax"}, {}),
      StmtFx(400, {"fig"}, {}, {"fig"}, {}) >>),
    FixmeCell(421),
    SolutionCell(443, <<
      Stmt(443, {"data", "pyemma"}, {"tica"}),
      Stmt(444, {"np", "tica"}, {"tica_all"}),
      Stmt(446, {"plt"}, {"axes", "fig"}),
      Stmt(447, {"axes", "pyemma", "tica", "tica_all"}, {}),
      StmtFx(449, {"axes", "tica_all"}, {}, {"axes"}, {}),
      Stmt(450, {"axes", "pyemma", "tica_all"}, {}),
      Stmt(451, {"axes"}, {"ax"}),
      StmtFx(452, {"ax"}, {}, {"ax"}, {}),
      StmtFx(453, {"ax"}, {}, {"ax"}, {}),
      StmtFx(454, {"fig"}, {}, {"fig"}, {}) >>),
    FixmeCell(479),
    SolutionCell(502, <<
      Stmt(502, {"data", "pyemma"}, {"pca"}),
      Stmt(503, {"np", "pca"}, {"pca_all"}),
      Stmt(505, {"pca", "pyemma"}, {"cluster"}),
      Stmt(507, {"plt"}, {"axes", "fig"}),
      Stmt(508, {"axes", "pca", "pca_all", "pyemma"}, {}),
      StmtFx(510, {"axes", "pca_all"}, {}, {"axes"}, {}),
      StmtFx(511, {"axes", "cluster"}, {}, {"axes"}, {}),
      StmtFx(512, {"axes"}, {}, {"axes"}, {}),
      StmtFx(513, {"axes"}, {}, {"axes"}, {}),
      StmtFx(514, {"fig"}, {}, {"fig"}, {}) >>),
    FixmeCell(535),
    SolutionCell(558, <<
      Stmt(558, {"data", "pyemma"}, {"tica"}),
      Stmt(559, {"np", "tica"}, {"tica_all"}),
      Stmt(561, {"pyemma", "tica"}, {"cluster"}),
      Stmt(563, {"plt"}, {"axes", "fig"}),
      Stmt(564, {"axes", "pyemma", "tica", "tica_all"}, {}),
      StmtFx(566, {"axes", "tica_all"}, {}, {"axes"}, {}),
      StmtFx(567, {"axes", "cluster"}, {}, {"axes"}, {}),
      StmtFx(568, {"axes"}, {}, {"axes"}, {}),
      StmtFx(569, {"axes"}, {}, {"axes"}, {}),
      StmtFx(570, {"fig"}, {}, {"fig"}, {}) >>),
    FixmeCell(593),
    SolutionCell(616, <<
      StmtFx(616, {"mdshare"}, {"pdb"}, {}, {"pentapeptide-impl-solv.pdb"}),
      StmtFx(617, {"mdshare"}, {"files"}, {}, {"pentapeptide-*-500ns-impl-solv.xtc"}),
      Stmt(619, {"pdb", "pyemma"}, {"feat"}),
      StmtFx(620, {"feat"}, {}, {"feat"}, {"add_backbone_torsions"}),
      StmtFx(621, {"feat"}, {}, {"feat"}, {"add_sidechain_torsions"}),
      Stmt(623, {"feat", "files", "pyemma"}, {"data"}),
      Stmt(624, {"data", "np"}, {"data_all"}),
      Stmt(626, {"plt"}, {"ax", "fig"}),
      Stmt(627, {"ax", "data_all", "feat", "pyemma"}, {}),
      StmtFx(628, {"fig"}, {}, {"fig"}, {}) >>),
    FixmeCell(647),
    SolutionCell(669, <<
      Stmt(669, {"data", "pyemma"}, {"pca"}),
      Stmt(670, {"np", "pca"}, {"pca_all"}),
      Stmt(672, {"plt"}, {"axes", "fig"}),
      Stmt(673, {"axes", "pca", "pca_all", "pyemma"}, {}),
      StmtFx(675, {"axes", "pca_all"}, {}, {"axes"}, {}),
      Stmt(676, {"axes", "pca_all", "pyemma"}, {}),
      Stmt(677, {"axes"}, {"ax"}),
      StmtFx(678, {"ax"}, {}, {"ax"}, {}),
      StmtFx(679, {"ax"}, {}, {"ax"}, {}),
      StmtFx(680, {"fig"}, {}, {"fig"}, {}) >>),
    FixmeCell(699),
    SolutionCell(724, <<
      Stmt(724, {}, {"lags"}),
      Stmt(726, {"lags", "plt"}, {"axes", "fig"}),
      Stmt(727, {"lags"}, {"i", "lag"}),
      Stmt(728, {"data", "lag", "pyemma"}, {"tica"}),
      Stmt(729, {"np", "tica"}, {"tica_all"}),
      Stmt(730, {"axes", "i", "pyemma", "tica", "tica_all"}, {}),
      StmtFx(732, {"axes", "i", "lag"}, {}, {"axes"}, {}),
      StmtFx(733, {"axes", "i", "tica_all"}, {}, {"axes"}, {}),
      Stmt(734, {"axes", "i", "pyemma", "tica_all"}, {}),
      Stmt(735, {"axes"}, {"ax"}),
      StmtFx(736, {"ax"}, {}, {"ax"}, {}),
      StmtFx(737, {"ax"}, {}, {"ax"}, {}),
      StmtFx(738, {"fig"}, {}, {"fig"}, {}) >>),
    FixmeCell(765),
    SolutionCell(789, <<
      Stmt(789, {"data", "pyemma"}, {"pca"}),
      Stmt(790, {"np", "pca"}, {"pca_all"}),
      Stmt(792, {"pca", "pyemma"}, {"cluster"}),
      Stmt(794, {"plt"}, {"axes", "fig"}),
      Stmt(795, {"axes", "pca", "pca_all", "pyemma"}, {}),
      Stmt(797, {"axes"}, {"ax", "i", "j"}),
      StmtFx(798, {"ax", "i", "j", "pca_all"}, {}, {"ax"}, {}),
      StmtFx(799, {"ax", "cluster", "i", "j"}, {}, {"ax"}, {}),
      StmtFx(800, {"ax", "i"}, {}, {"ax"}, {}),
      StmtFx(801, {"ax", "j"}, {}, {"ax"}, {}),
      StmtFx(802, {"fig"}, {}, {"fig"}, {}) >>),
    FixmeCell(821),
    SolutionCell(845, <<
      Stmt(845, {"data", "pyemma"}, {"tica"}),
      Stmt(846, {"np", "tica"}, {"tica_all"}),
      Stmt(848, {"pyemma", "tica"}, {"cluster"}),
      Stmt(850, {"plt"}, {"axes", "fig"}),
      Stmt(851, {"axes", "pyemma", "tica", "tica_all"}, {}),
      Stmt(853, {"axes"}, {"ax", "i", "j"}),
      StmtFx(854, {"ax", "i", "j", "tica_all"}, {}, {"ax"}, {}),
      StmtFx(855, {"ax", "cluster", "i", "j"}, {}, {"ax"}, {}),
      StmtFx(856, {"ax", "i"}, {}, {"ax"}, {}),
      StmtFx(857, {"ax", "j"}, {}, {"ax"}, {}),
      StmtFx(858, {"fig"}, {}, {"fig"}, {}) >>)
  >>

\* Notebook "03 - MSM estimation and validation" (src/notebooks/03-msm-estimation-and-validation.ipynb), code cells in document order.
Notebook03 ==
  <<
    Cell(17, <<
      Stmt(18, {}, {"plt"}),
      Stmt(19, {}, {"np"}),
      Stmt(20, {}, {"mdshare"}),
      Stmt(21, {}, {"pyemma"}) >>),
    Cell(38, <<
      StmtFx(38, {"mdshare"}, {"file"}, {}, {"hmm-doublewell-2d-100k.npz"}),
      Stmt(39, {"file", "np"}, {"fh"}),
      Stmt(40, {"fh"}, {"data"}),
      Stmt(42, {"data", "pyemma"}, {"cluster"}),
      Stmt(44, {"plt"}, {"axes", "fig"}),
      Stmt(45, {"axes", "data", "pyemma"}, {}),
      StmtFx(46, {"axes", "data"}, {}, {"axes"}, {}),
      StmtFx(47, {"axes", "cluster"}, {}, {"axes"}, {}),
      StmtFx(48, {"axes"}, {}, {"axes"}, {}),
      StmtFx(49, {"axes"}, {}, {"axes"}, {}),
      StmtFx(50, {"fig"}, {}, {"fig"}, {}) >>),
    Cell(66, <<
      Stmt(66, {"cluster", "pyemma"}, {"its"}) >>),
    Cell(82, <<
      Stmt(82, {"its", "pyemma"}, {}) >>),
    Cell(104, <<
      Stmt(104, {"cluster", "pyemma"}, {"msm"}),
      Stmt(105, {"msm", "pyemma"}, {}) >>),
    Cell(126, <<
      StmtFx(126, {"mdshare"}, {"pdb"}, {}, {"alanine-dipeptide-nowater.pdb"}),
      StmtFx(127, {"mdshare"}, {"files"}, {}, {"alanine-dipeptide-*-250ns-nowater.dcd"}),
      Stmt(129, {"pdb", "pyemma"}, {"feat"}),
      StmtFx(130, {"feat"}, {}, {"feat"}, {"add_backbone_torsions"}),
      Stmt(131, {"feat", "files", "pyemma"}, {"data"}),
      Stmt(133, {"data", "pyemma"}, {"cluster"}),
      Stmt(134, {"cluster", "pyemma"}, {"its"}),
      Stmt(136, {"plt"}, {"axes", "fig"}),
      Stmt(137, {"axes", "data", "np", "pyemma"}, {}),
      StmtFx(138, {"axes", "data", "np"}, {}, {"axes"}, {}),
      StmtFx(139, {"axes", "cluster"}, {}, {"axes"}, {}),
      StmtFx(140, {"axes"}, {}, {"axes"}, {}),
      StmtFx(141, {"axes"}, {}, {"axes"}, {}),
      Stmt(142, {"axes", "its", "pyemma"}, {}),
      StmtFx(143, {"fig"}, {}, {"fig"}, {}) >>),
    Cell(161, <<
      Stmt(161, {"plt"}, {"axes", "fig"}),
      Stmt(162, {}, {"i", "k"}),
      Stmt(163, {"data", "k", "pyemma"}, {"cls"}),
      StmtFx(164, {"axes", "data", "i", "np"}, {}, {"axes"}, {}),
      StmtFx(165, {"axes", "cls", "i"}, {}, {"axes"}, {}),
      StmtFx(166, {"axes", "i"}, {}, {"axes"}, {}),
      StmtFx(167, {"axes", "i"}, {}, {"axes"}, {}),
      StmtFx(168, {"axes", "i", "k"}, {}, {"axes"}, {}),
      Stmt(169, {"axes", "cls", "i", "pyemma"}, {}),
      StmtFx(172, {"axes", "i"}, {}, {"axes"}, {}),
      StmtFx(173, {"fig"}, {}, {"fig"}, {}) >>),
    Cell(191, <<
      Stmt(191, {"cluster", "pyemma"}, {"msm"}),
      Stmt(192, {"msm", "pyemma"}, {}) >>),
    Cell(210, <<
      Stmt(210, {"cluster", "pyemma"}, {"bayesian_msm"}),
      Stmt(211, {"bayesian_msm", "pyemma"}, {}) >>),
    FixmeCell(232),
    SolutionCell(273, <<
      Stmt(273, {"pdb", "pyemma"}, {"feat"}),
      StmtFx(274, {"feat"}, {}, {"feat"}, {"add_distances"}),
      Stmt(275, {"feat", "files", "pyemma"}, {"data"}),
      Stmt(277, {"data", "pyemma"}, {"pca"}),
      Stmt(278, {"data", "pyemma"}, {"tica"}),
      Stmt(280, {"pca", "pyemma"}, {"cls_pca"}),
      Stmt(281, {"pyemma", "tica"}, {"cls_tica"}),
      Stmt(283, {"cls_pca", "pyemma"}, {"its_pca"}),
      Stmt(284, {"cls_tica", "pyemma"}, {"its_tica"}),
      Stmt(286, {"plt"}, {"axes", "fig"}),
      Stmt(287, {"axes", "np", "pca", "pyemma"}, {}),
      Stmt(288, {"axes", "np", "pyemma", "tica"}, {}),
      StmtFx(289, {"axes"}, {}, {"axes"}, {}),
      StmtFx(290, {"axes"}, {}, {"axes"}, {}),
      StmtFx(291, {"axes", "np", "pca"}, {}, {"axes"}, {}),
      StmtFx(292, {"axes", "cls_pca"}, {}, {"axes"}, {}),
      StmtFx(293, {"axes"}, {}, {"axes"}, {}),
      StmtFx(294, {"axes"}, {}, {"axes"}, {}),
      StmtFx(295, {"axes", "np", "tica"}, {}, {"axes"}, {}),
      StmtFx(296, {"axes", "cls_tica"}, {}, {"axes"}, {}),
      StmtFx(297, {"axes"}, {}, {"axes"}, {}),
      StmtFx(298, {"axes"}, {}, {"axes"}, {}),
      Stmt(299, {"axes", "its_pca", "pyemma"}, {}),
      Stmt(300, {"axes", "its_tica", "pyemma"}, {}),
      StmtFx(301, {"axes"}, {}, {"axes"}, {}),
      StmtFx(302, {"axes"}, {}, {"axes"}, {}),
      StmtFx(303, {"fig"}, {}, {"fig"}, {}) >>),
    FixmeCell(328),
    SolutionCell(340, <<
      Stmt(340, {"cls_tica", "pyemma"}, {"bayesian_msm"}),
      Stmt(341, {"bayesian_msm", "pyemma"}, {}) >>),
    FixmeCell(364),
    SolutionCell(390, <<
      StmtFx(390, {"mdshare"}, {"pdb"}, {}, {"pentapeptide-impl-solv.pdb"}),
      StmtFx(391, {"mdshare"}, {"files"}, {}, {"pentapeptide-*-500ns-impl-solv.xtc"}),
      Stmt(393, {"pdb", "pyemma"}, {"feat"}),
      StmtFx(394, {"feat"}, {}, {"feat"}, {"add_backbone_torsions"}),
      StmtFx(395, {"feat"}, {}, {"feat"}, {"add_sidechain_torsions"}),
      Stmt(396, {"feat", "files", "pyemma"}, {"data"}),
      Stmt(398, {"data", "pyemma"}, {"tica"}),
      Stmt(399, {"pyemma", "tica"}, {"cluster"}),
      Stmt(400, {"cluster", "pyemma"}, {"its"}),
      Stmt(402, {"plt"}, {"axes", "fig"}),
      Stmt(403, {"axes", "np", "pyemma", "tica"}, {}),
      Stmt(404, {"axes", "its", "pyemma"}, {}),
      StmtFx(405, {"fig"}, {}, {"fig"}, {}) >>),
    FixmeCell(428),
    SolutionCell(439, <<
      Stmt(439, {"cluster", "pyemma"}, {"msm"}) >>),
    Cell(455, <<
      Stmt(455, {"msm"}, {"timescales"}),
      Stmt(457, {"plt", "timescales"}, {}),
      Stmt(458, {"plt"}, {}),
      Stmt(459, {"plt"}, {}) >>),
    FixmeCell(482),
    SolutionCell(494, <<
      Stmt(494, {"cluster", "pyemma"}, {"bayesian_msm"}),
      Stmt(495, {"bayesian_msm", "pyemma"}, {}) >>),
    FixmeCell(514),
    SolutionCell(526, <<
      Stmt(526, {"cluster", "pyemma"}, {"bayesian_msm"}),
      Stmt(527, {"bayesian_msm", "pyemma"}, {}) >>)
  >>

\* Notebook "05 - hidden Markov state models (HMMs)" (src/notebooks/03-msm-estimation-and-validation.ipynb), code cells in document order.
Notebook05 ==
  <<
    Cell(602, <<
      Stmt(603, {}, {"plt"}),
      Stmt(604, {}, {"mpl"}),
      Stmt(605, {}, {"np"}),
      Stmt(606, {}, {"mdshare"}),
      Stmt(607, {}, {"pyemma"}) >>),
    Cell(624, <<
      StmtFx(624, {"mdshare"}, {"file"}, {}, {"hmm-doublewell-2d-100k.npz"}),
      Stmt(625, {"file", "np"}, {"fh"}),
      Stmt(626, {"fh"}, {"data"}),
      Stmt(627, {"fh"}, {"good_dtraj"}) >>),
    Cell(643, <<
      Stmt(643, {"np"}, {"poor_clustercenters"}),
      Stmt(644, {"data", "poor_clustercenters", "pyemma"}, {"poor_dtraj"}) >>),
    Cell(660, <<
      Stmt(660, {"plt"}, {"axes", "fig"}),
      StmtFx(661, {"axes", "data", "poor_dtraj"}, {}, {"axes"}, {}),
      StmtFx(662, {"axes", "poor_clustercenters"}, {}, {"axes"}, {}),
      StmtFx(663, {"axes", "data", "good_dtraj"}, {}, {"axes"}, {}),
      StmtFx(664, {"axes", "np"}, {}, {"axes"}, {}),
      Stmt(665, {"axes"}, {"ax"}),
      StmtFx(666, {"ax"}, {}, {"ax"}, {}),
      StmtFx(667, {"ax"}, {}, {"ax"}, {}),
      StmtFx(668, {"axes"}, {}, {"axes"}, {}),
      StmtFx(669, {"axes"}, {}, {"axes"}, {}),
      StmtFx(670, {"fig"}, {}, {"fig"}, {}) >>),
    Cell(686, <<
      Stmt(686, {}, {"lags"}),
      Stmt(688, {"plt"}, {"axes", "fig"}),
      Stmt(689, {"axes", "lags", "poor_dtraj", "pyemma"}, {}),
      Stmt(691, {"axes", "good_dtraj", "lags", "pyemma"}, {}),
      StmtFx(693, {"axes"}, {}, {"axes"}, {}),
      StmtFx(694, {"axes"}, {}, {"axes"}, {}),
      StmtFx(695, {"fig"}, {}, {"fig"}, {}) >>),
    Cell(713, <<
      Stmt(713, {"poor_dtraj", "pyemma"}, {"poor_msm"}),
      Stmt(714, {"good_dtraj", "pyemma"}, {"good_msm"}),
      Stmt(716, {"poor_msm"}, {}),
      Stmt(717, {"good_msm"}, {}) >>),
    Cell(735, <<
      Stmt(735, {"poor_msm", "pyemma"}, {}) >>),
    Cell(751, <<
      Stmt(751, {"good_msm", "pyemma"}, {}) >>),
    Cell(769, <<
      Stmt(769, {"plt"}, {"axes", "fig"}),
      Stmt(770, {"axes", "lags", "poor_dtraj", "pyemma"}, {}),
      Stmt(772, {"axes", "good_dtraj", "lags", "pyemma"}, {}),
      StmtFx(774, {"axes"}, {}, {"axes"}, {}),
      StmtFx(775, {"axes"}, {}, {"axes"}, {}),
      StmtFx(776, {"fig"}, {}, {"fig"}, {}) >>),
    Cell(794, <<
      Stmt(794, {"poor_dtraj", "pyemma"}, {"poor_hmm"}),
      Stmt(795, {"good_dtraj", "pyemma"}, {"good_hmm"}),
      Stmt(797, {"poor_hmm"}, {}),
      Stmt(798, {"good_hmm"}, {}) >>),
    Cell(818, <<
      Stmt(818, {"poor_hmm", "pyemma"}, {}) >>),
    Cell(834, <<
      Stmt(834, {"good_hmm", "pyemma"}, {}) >>),
    Cell(852, <<
      Stmt(852, {"np"}, {"bad_clustercenters"}),
      Stmt(853, {"bad_clustercenters", "data", "pyemma"}, {"bad_dtraj"}),
      Stmt(855, {"plt"}, {"axes", "fig"}),
      StmtFx(856, {"axes", "bad_dtraj", "data"}, {}, {"axes"}, {}),
      StmtFx(857, {"axes", "bad_clustercenters"}, {}, {"axes"}, {}),
      Stmt(858, {"axes", "bad_dtraj", "lags", "pyemma"}, {}),
      Stmt(860, {"axes", "bad_dtraj", "lags", "pyemma"}, {}),
      StmtFx(862, {"axes"}, {}, {"axes"}, {}),
      StmtFx(863, {"axes"}, {}, {"axes"}, {}),
      StmtFx(864, {"axes"}, {}, {"axes"}, {}),
      StmtFx(865, {"axes"}, {}, {"axes"}, {}),
      StmtFx(866, {"axes"}, {}, {"axes"}, {}),
      Stmt(867, {"axes"}, {"ax"}),
      StmtFx(868, {"ax"}, {}, {"ax"}, {}),
      StmtFx(869, {"fig"}, {}, {"fig"}, {}) >>),
    Cell(887, <<
      Stmt(887, {"bad_dtraj", "pyemma"}, {"bad_hmm"}),
      Stmt(888, {"bad_hmm"}, {}),
      Stmt(889, {"bad_hmm", "pyemma"}, {}) >>),
    Cell(909, <<
      Stmt(909, {"bad_dtraj", "pyemma"}, {"bad_msm"}),
      Stmt(910, {"bad_msm"}, {}),
      Stmt(912, {"bad_msm"}, {"bad_coarse_msm"}),
      Stmt(913, {"bad_coarse_msm"}, {}) >>),
    Cell(929, <<
      Stmt(929, {"bad_coarse_msm"}, {}),
      Stmt(931, {"bad_coarse_msm", "pyemma"}, {}) >>),
    Cell(954, <<
      StmtFx(954, {"mdshare"}, {"pdb"}, {}, {"alanine-dipeptide-nowater.pdb"}),
      StmtFx(955, {"mdshare"}, {"files"}, {}, {"alanine-dipeptide-*-250ns-nowater.dcd"}),
      Stmt(957, {"pdb", "pyemma"}, {"feat"}),
      StmtFx(958, {"feat"}, {}, {"feat"}, {"add_backbone_torsions"}),
      Stmt(959, {"feat", "files", "pyemma"}, {"data"}),
      Stmt(960, {"data", "np"}, {"data_out"}),
      Stmt(962, {"data", "pyemma"}, {"cluster"}),
      Stmt(963, {"cluster", "pyemma"}, {"its"}),
      Stmt(965, {"plt"}, {"axes", "fig"}),
      Stmt(966, {"axes", "data_out", "pyemma"}, {}),
      StmtFx(967, {"axes", "data_out"}, {}, {"axes"}, {}),
      StmtFx(968, {"axes", "cluster"}, {}, {"axes"}, {}),
      StmtFx(969, {"axes"}, {}, {"axes"}, {}),
      StmtFx(970, {"axes"}, {}, {"axes"}, {}),
      Stmt(971, {"axes", "its", "pyemma"}, {}),
      StmtFx(972, {"fig"}, {}, {"fig"}, {}) >>),
    Cell(988, <<
      Stmt(988, {"cluster", "pyemma"}, {"bayesian_msm"}),
      Stmt(990, {}, {"nstates"}),
      Stmt(991, {"bayesian_msm", "nstates", "pyemma"}, {}) >>),
    Cell(1007, <<
      Stmt(1007, {"bayesian_msm", "nstates"}, {"hmm"}),
      Stmt(1009, {"bayesian_msm"}, {}),
      Stmt(1011, {"hmm"}, {}) >>),
    Cell(1030, <<
      Stmt(1030, {"plt"}, {"axes", "fig"}),
      Stmt(1031, {"axes", "bayesian_msm", "cluster", "data_out", "np"}, {"im"}),
      Stmt(1035, {"axes", "fig", "im"}, {"cb"}),
      StmtFx(1036, {"cb"}, {}, {"cb"}, {}),
      Stmt(1037, {"axes", "cluster", "data_out", "hmm", "mpl", "np", "nstates"}, {"im"}),
      Stmt(1043, {"axes", "fig", "im"}, {"cb"}),
      StmtFx(1044, {"cb"}, {}, {"cb"}, {}),
      StmtFx(1045, {"cb", "np", "nstates"}, {}, {"cb"}, {}),
      Stmt(1046, {"axes"}, {"ax"}),
      StmtFx(1047, {"ax"}, {}, {"ax"}, {}),
      StmtFx(1048, {"ax"}, {}, {"ax"}, {}),
      StmtFx(1049, {"fig"}, {}, {"fig"}, {}) >>),
    Cell(1066, <<
      Stmt(1066, {"data", "pyemma"}, {"cluster"}),
      Stmt(1067, {"cluster", "pyemma"}, {"its"}),
      Stmt(1069, {"plt"}, {"axes", "fig"}),
      Stmt(1070, {"axes", "data_out", "pyemma"}, {}),
      StmtFx(1071, {"axes", "cluster", "data_out", "np"}, {}, {"axes"}, {}),
      StmtFx(1072, {"axes", "cluster"}, {}, {"axes"}, {}),
      StmtFx(1073, {"axes"}, {}, {"axes"}, {}),
      StmtFx(1074, {"axes"}, {}, {"axes"}, {}),
      Stmt(1075, {"axes", "its", "pyemma"}, {}),
      StmtFx(1076, {"fig"}, {}, {"fig"}, {}) >>),
    Cell(1092, <<
      Stmt(1092, {"plt"}, {"axes", "fig"}),
      Stmt(1093, {"axes", "cluster", "pyemma"}, {}),
      Stmt(1095, {"axes", "cluster", "pyemma"}, {}),
      StmtFx(1097, {"fig"}, {}, {"fig"}, {}) >>),
    Cell(1117, <<
      Stmt(1117, {"cluster", "pyemma"}, {"hmm_4"}),
      Stmt(1118, {"hmm_4", "pyemma"}, {}) >>),
    Cell(1134, <<
      Stmt(1134, {"cluster", "pyemma"}, {"hmm_6"}),
      Stmt(1135, {"hmm_6", "pyemma"}, {}) >>),
    Cell(1153, <<
      Stmt(1153, {"plt"}, {"axes", "fig"}),
      Stmt(1154, {"axes", "hmm_4", "hmm_6"}, {"ax", "hmm"}),
      Stmt(1155, {"ax", "cluster", "data_out", "hmm", "mpl", "np"}, {"im"}),
      StmtFx(1161, {"ax"}, {}, {"ax"}, {}),
      StmtFx(1162, {"ax"}, {}, {"ax"}, {}),
      StmtFx(1163, {"ax", "hmm"}, {}, {"ax"}, {}),
      Stmt(1164, {"ax", "fig", "im"}, {"cb"}),
      StmtFx(1165, {"cb"}, {}, {"cb"}, {}),
      StmtFx(1166, {"cb", "hmm", "np"}, {}, {"cb"}, {}),
      StmtFx(1167, {"fig"}, {}, {"fig"}, {}) >>),
    FixmeCell(1192),
    SolutionCell(1220, <<
      Stmt(1220, {"pdb", "pyemma"}, {"feat"}),
      StmtFx(1221, {"feat"}, {}, {"feat"}, {"add_distances"}),
      Stmt(1222, {"feat", "files", "pyemma"}, {"data"}),
      Stmt(1224, {"data", "pyemma"}, {"tica"}),
      Stmt(1225, {"np", "tica"}, {"tica_out"}),
      Stmt(1227, {"pyemma", "tica"}, {"cluster"}),
      Stmt(1228, {"cluster", "pyemma"}, {"its"}),
      Stmt(1230, {"plt"}, {"axes", "fig"}),
      Stmt(1231, {"axes", "pyemma", "tica_out"}, {}),
      StmtFx(1232, {"axes", "tica_out"}, {}, {"axes"}, {}),
      StmtFx(1233, {"axes", "cluster"}, {}, {"axes"}, {}),
      StmtFx(1234, {"axes"}, {}, {"axes"}, {}),
      StmtFx(1235, {"axes"}, {}, {"axes"}, {}),
      Stmt(1236, {"axes", "its", "pyemma"}, {}),
      StmtFx(1237, {"fig"}, {}, {"fig"}, {}) >>),
    FixmeCell(1256),
    SolutionCell(1267, <<
      Stmt(1267, {"cluster", "pyemma"}, {}) >>),
    FixmeCell(1287),
    SolutionCell(1299, <<
      Stmt(1299, {"cluster", "pyemma"}, {"hmm"}),
      Stmt(1300, {"hmm", "pyemma"}, {}) >>),
    FixmeCell(1319),
    SolutionCell(1330, <<
      Stmt(1330, {}, {"draw_panel"}),
      Stmt(1343, {"plt"}, {"axes", "fig"}),
      Stmt(1344, {"axes", "cluster", "draw_panel", "fig", "hmm", "mpl", "np", "tica_out"}, {}),
      Stmt(1345, {"axes", "cluster", "draw_panel", "fig", "hmm", "mpl", "np", "tica_out"}, {}),
      Stmt(1346, {"axes", "cluster", "draw_panel", "fig", "hmm", "mpl", "np", "tica_out"}, {}),
      StmtFx(1347, {"axes"}, {}, {"axes"}, {}),
      StmtFx(1348, {"fig"}, {}, {"fig"}, {}) >>)
  >>

\* Notebook "06 - Expectations and Observables" (src/unnamed/part_000), code cells in document order.
Notebook06 ==
  <<
    Cell(728, <<
      Stmt(729, {}, {"plt"}),
      Stmt(730, {}, {"np"}),
      Stmt(731, {}, {"mdshare"}),
      Stmt(732, {}, {"pyemma"}) >>),
    Cell(748, <<
      StmtFx(748, {"mdshare"}, {"file"}, {}, {"hmm-doublewell-2d-100k.npz"}),
      Stmt(749, {"file", "np"}, {"fh"}),
      Stmt(750, {"fh"}, {"data"}),
      Stmt(752, {"data", "pyemma"}, {"cluster"}),
      Stmt(753, {"cluster", "pyemma"}, {"its"}),
      Stmt(756, {"plt"}, {"axes", "fig"}),
      Stmt(757, {"axes", "data", "pyemma"}, {}),
      StmtFx(759, {"axes", "data"}, {}, {"axes"}, {}),
      StmtFx(760, {"axes", "cluster"}, {}, {"axes"}, {}),
      StmtFx(761, {"axes"}, {}, {"axes"}, {}),
      StmtFx(762, {"axes"}, {}, {"axes"}, {}),
      Stmt(763, {"axes", "its", "pyemma"}, {}),
      StmtFx(764, {"fig"}, {}, {"fig"}, {}) >>),
    Cell(773, <<
      Stmt(773, {"cluster", "pyemma"}, {"msm"}),
      Stmt(774, {"cluster", "pyemma"}, {"bayesian_msm"}),
      Stmt(776, {"msm"}, {}),
      Stmt(777, {"msm"}, {}),
      Stmt(779, {}, {"nstates"}),
      Stmt(780, {"msm", "nstates", "pyemma"}, {}) >>),
    Cell(799, <<
      Stmt(799, {}, {"observable"}),
      Stmt(803, {"msm"}, {"pcca"}),
      Stmt(804, {"data", "observable"}, {"ftraj"}) >>),
    Cell(813, <<
      Stmt(813, {"plt"}, {"ax", "fig"}),
      StmtFx(814, {"ax", "ftraj"}, {}, {"ax"}, {}),
      Stmt(815, {"pcca"}, {"metastable_set", "num"}),
      Stmt(816, {"cluster", "metastable_set", "np"}, {"traj_indices"}),
      StmtFx(817, {"ax", "ftraj", "num", "traj_indices"}, {}, {"ax"}, {}),
      StmtFx(821, {"ax"}, {}, {"ax"}, {}),
      StmtFx(822, {"ax"}, {}, {"ax"}, {}),
      StmtFx(823, {"ax"}, {}, {"ax"}, {}),
      StmtFx(824, {"ax"}, {}, {"ax"}, {}),
      StmtFx(825, {"fig"}, {}, {"fig"}, {}) >>),
    Cell(842, <<
      Stmt(842, {"cluster", "ftraj", "np"}, {"observable_vec"}) >>),
    Cell(859, <<
      Stmt(859, {"plt"}, {"axes", "fig"}),
      Stmt(860, {"axes", "cluster", "observable_vec", "pyemma"}, {}),
      StmtFx(865, {"axes"}, {}, {"axes"}, {}),
      Stmt(866, {"axes", "cluster", "msm", "pyemma"}, {}),
      StmtFx(871, {"axes"}, {}, {"axes"}, {}),
      StmtFx(872, {"fig"}, {}, {"fig"}, {}) >>),
    Cell(888, <<
      Stmt(888, {"msm", "observable_vec"}, {}) >>),
    Cell(908, <<
      Stmt(908, {"bayesian_msm", "observable_vec"}, {"observable_sample_mean"}),
      Stmt(909, {"bayesian_msm"}, {}),
      Stmt(911, {"bayesian_msm", "observable_vec"}, {"observable_ci"}),
      Stmt(912, {"bayesian_msm", "observable_ci", "observable_sample_mean"}, {}) >>),
    FixmeCell(936),
    SolutionCell(972, <<
      Stmt(972, {}, {"new_observable"}),
      Stmt(976, {"data", "new_observable"}, {"new_ftraj"}),
      Stmt(977, {"cluster", "ftraj", "np"}, {"new_observable_vec"}),
      Stmt(981, {}, {"is_within"}),
      Stmt(985, {}, {"experiment2"}),
      Stmt(986, {"msm", "new_observable_vec"}, {"msm_prediction"}),
      Stmt(988, {"bayesian_msm", "new_observable_vec"}, {"bayesian_msm_sample_mean"}),
      Stmt(989, {"bayesian_msm", "new_observable_vec"}, {"bayesian_msm_ci95"}),
      Stmt(991, {"experiment2", "msm_prediction"}, {}),
      Stmt(993, {"bayesian_msm_ci95", "bayesian_msm_sample_mean", "experiment2"}, {}),
      Stmt(997, {"bayesian_msm_ci95", "experiment2", "is_within"}, {}) >>),
    Cell(1014, <<
      StmtFx(1014, {"mdshare"}, {"pdb"}, {}, {"alanine-dipeptide-nowater.pdb"}),
      StmtFx(1015, {"mdshare"}, {"files"}, {}, {"alanine-dipeptide-*-250ns-nowater.dcd"}),
      Stmt(1017, {"pdb", "pyemma"}, {"feat"}),
      StmtFx(1018, {"feat"}, {}, {"feat"}, {"add_backbone_torsions"}),
      Stmt(1019, {"feat", "files", "pyemma"}, {"data"}),
      Stmt(1021, {"data", "pyemma"}, {"cluster"}),
      Stmt(1023, {"cluster", "pyemma"}, {"its"}),
      Stmt(1026, {"plt"}, {"axes", "fig"}),
      Stmt(1027, {"axes", "data", "np", "pyemma"}, {}),
      StmtFx(1029, {"axes", "data", "np"}, {}, {"axes"}, {}),
      StmtFx(1030, {"axes", "cluster"}, {}, {"axes"}, {}),
      StmtFx(1031, {"axes"}, {}, {"axes"}, {}),
      StmtFx(1032, {"axes"}, {}, {"axes"}, {}),
      Stmt(1033, {"axes", "its", "pyemma"}, {}),
      StmtFx(1034, {"fig"}, {}, {"fig"}, {}) >>),
    Cell(1043, <<
      Stmt(1043, {"cluster", "pyemma"}, {"msm"}),
      Stmt(1046, {"msm"}, {}),
      Stmt(1047, {"msm"}, {}),
      Stmt(1049, {"cluster", "pyemma"}, {"bayesian_msm"}),
      Stmt(1051, {}, {"nstates"}),
      Stmt(1052, {"bayesian_msm", "nstates", "pyemma"}, {}) >>),
    Cell(1073, <<
      Stmt(1073, {"pdb", "pyemma"}, {"feat2"}),
      StmtFx(1074, {"feat2"}, {}, {"feat2"}, {"add_dihedrals"}),
      Stmt(1075, {"feat2"}, {}),
      Stmt(1078, {"feat2", "files", "pyemma"}, {"dihedral"}),
      Stmt(1080, {}, {"Karplus"}),
      Stmt(1086, {"Karplus", "dihedral", "np"}, {"ftrajs"}),
      Stmt(1089, {"cluster", "ftrajs", "np"}, {"jcoupl_markov"}) >>),
    Cell(1107, <<
      Stmt(1107, {"plt"}, {"axes", "fig"}),
      Stmt(1108, {"axes", "cluster", "jcoupl_markov", "pyemma"}, {}),
      StmtFx(1112, {"axes"}, {}, {"axes"}, {}),
      StmtFx(1113, {"axes"}, {}, {"axes"}, {}),
      StmtFx(1114, {"axes"}, {}, {"axes"}, {}),
      Stmt(1115, {"axes", "cluster", "msm", "pyemma"}, {}),
      StmtFx(1119, {"axes"}, {}, {"axes"}, {}),
      StmtFx(1120, {"axes"}, {}, {"axes"}, {}),
      StmtFx(1121, {"axes"}, {}, {"axes"}, {}),
      StmtFx(1122, {"fig"}, {}, {"fig"}, {}) >>),
    FixmeCell(1142),
    SolutionCell(1154, <<
      Stmt(1154, {"jcoupl_markov", "msm"}, {"predicted_3j"}),
      Stmt(1155, {"predicted_3j"}, {}) >>),
    FixmeCell(1175),
    SolutionCell(1189, <<
      Stmt(1189, {"bayesian_msm", "jcoupl_markov"}, {"bayesian_sample_mean_3j"}),
      Stmt(1190, {"bayesian_msm", "jcoupl_markov"}, {"bayesian_ci_3j"}),
      Stmt(1192, {"bayesian_ci_3j", "bayesian_sample_mean_3j"}, {}) >>),
    Cell(1208, <<
      StmtFx(1208, {"mdshare"}, {"pdb"}, {}, {"pentapeptide-impl-solv.pdb"}),
      StmtFx(1209, {"mdshare"}, {"files"}, {}, {"pentapeptide-*-500ns-impl-solv.xtc"}),
      Stmt(1211, {"pdb", "pyemma"}, {"feat"}),
      StmtFx(1212, {"feat"}, {}, {"feat"}, {"add_backbone_torsions"}),
      StmtFx(1213, {"feat"}, {}, {"feat"}, {"add_sidechain_torsions"}),
      Stmt(1214, {"feat", "files", "pyemma"}, {"data"}),
      Stmt(1216, {"data", "pyemma"}, {"tica"}),
      Stmt(1217, {"np", "tica"}, {"tica_out"}),
      Stmt(1218, {"pyemma", "tica"}, {"cluster"}),
      Stmt(1220, {"cluster", "pyemma"}, {"its"}),
      Stmt(1222, {"plt"}, {"axes", "fig"}),
      Stmt(1223, {"axes", "pyemma", "tica_out"}, {}),
      Stmt(1224, {"axes", "its", "pyemma"}, {}),
      StmtFx(1225, {"fig"}, {}, {"fig"}, {}) >>),
    Cell(1234, <<
      Stmt(1234, {"cluster", "pyemma"}, {"msm"}),
      Stmt(1237, {"msm"}, {}),
      Stmt(1238, {"msm"}, {}),
      Stmt(1240, {"cluster", "pyemma"}, {"bayesian_msm"}) >>),
    Cell(1250, <<
      Stmt(1250, {}, {"nstates"}),
      Stmt(1251, {"bayesian_msm", "nstates", "pyemma"}, {}),
      Stmt(1253, {"msm", "nstates"}, {"hmm"}) >>),
    Cell(1288, <<
      Stmt(1288, {}, {"shrake_rupley"}) >>),
    Cell(1305, <<
      Stmt(1305, {"files", "msm", "pdb", "pyemma"}, {"markov_samples"}) >>),
    Cell(1315, <<
      Stmt(1316, {"markov_samples", "shrake_rupley"}, {"markov_average_trp_sasa"}) >>),
    Cell(1333, <<
      Stmt(1333, {"markov_average_trp_sasa", "msm"}, {"eq_acf_ml", "eq_time_ml"}),
      Stmt(1335, {"bayesian_msm", "markov_average_trp_sasa", "np"}, {"eq_acf_bayes", "eq_time_bayes"}),
      Stmt(1340, {"bayesian_msm", "markov_average_trp_sasa", "np"}, {"eq_acf_bayes_ci_l", "eq_acf_bayes_ci_u"}),
      Stmt(1345, {"plt"}, {"ax", "fig"}),
      StmtFx(1346, {"ax", "eq_acf_ml", "eq_time_ml"}, {}, {"ax"}, {}),
      StmtFx(1347, {"ax", "eq_acf_bayes", "eq_time_bayes"}, {}, {"ax"}, {}),
      StmtFx(1350, {"ax", "eq_acf_bayes_ci_l", "eq_acf_bayes_ci_u", "eq_time_bayes"}, {}, {"ax"}, {}),
      StmtFx(1353, {"ax"}, {}, {"ax"}, {}),
      StmtFx(1355, {"ax", "eq_time_ml"}, {}, {"ax"}, {}),
      StmtFx(1356, {"ax"}, {}, {"ax"}, {}),
      StmtFx(1357, {"ax"}, {}, {"ax"}, {}),
      StmtFx(1359, {"ax"}, {}, {"ax"}, {}),
      StmtFx(1360, {"fig"}, {}, {"fig"}, {}) >>),
    Cell(1378, <<
      Stmt(1378, {"hmm", "markov_average_trp_sasa", "msm"}, {"eq_acf_ml", "eq_time_ml"}),
      Stmt(1383, {"bayesian_msm", "hmm", "markov_average_trp_sasa", "np"}, {"eq_acf_bayes", "eq_time_bayes"}),
      Stmt(1389, {"bayesian_msm", "hmm", "markov_average_trp_sasa", "np"}, {"eq_acf_bayes_CI_l", "eq_acf_bayes_CI_u"}),
      Stmt(1395, {"plt"}, {"ax", "fig"}),
      StmtFx(1396, {"ax", "eq_acf_ml", "eq_time_ml"}, {}, {"ax"}, {}),
      StmtFx(1397, {"ax", "eq_acf_bayes", "eq_time_bayes"}, {}, {"ax"}, {}),
      StmtFx(1400, {"ax", "eq_acf_bayes_CI_l", "eq_acf_bayes_CI_u", "eq_time_bayes"}, {}, {"ax"}, {}),
      StmtFx(1403, {"ax"}, {}, {"ax"}, {}),
      StmtFx(1405, {"ax", "eq_time_ml"}, {}, {"ax"}, {}),
      StmtFx(1406, {"ax"}, {}, {"ax"}, {}),
      StmtFx(1407, {"ax"}, {}, {"ax"}, {}),
      StmtFx(1409, {"ax"}, {}, {"ax"}, {}),
      StmtFx(1410, {"fig"}, {}, {"fig"}, {}) >>),
    FixmeCell(1433),
    SolutionCell(1444, <<
      Stmt(1444, {"hmm", "markov_average_trp_sasa", "msm"}, {"eq_acf_ml", "eq_time_ml"}),
      Stmt(1449, {"bayesian_msm", "hmm", "markov_average_trp_sasa", "np"}, {"eq_acf_bayes", "eq_time_bayes"}),
      Stmt(1455, {"bayesian_msm", "hmm", "markov_average_trp_sasa", "np"}, {"eq_acf_bayes_ci_l", "eq_acf_bayes_ci_u"}),
      Stmt(1461, {"plt"}, {"ax", "fig"}),
      StmtFx(1463, {"ax", "eq_acf_ml", "eq_time_ml"}, {}, {"ax"}, {}),
      StmtFx(1465, {"ax", "eq_acf_bayes", "eq_time_bayes"}, {}, {"ax"}, {}),
      StmtFx(1468, {"ax", "eq_acf_bayes_ci_l", "eq_acf_bayes_ci_u", "eq_time_bayes"}, {}, {"ax"}, {}),
      StmtFx(1471, {"ax"}, {}, {"ax"}, {}),
      StmtFx(1473, {"ax", "eq_time_ml"}, {}, {"ax"}, {}),
      StmtFx(1474, {"ax"}, {}, {"ax"}, {}),
      StmtFx(1475, {"ax"}, {}, {"ax"}, {}),
      StmtFx(1477, {"ax"}, {}, {"ax"}, {}),
      StmtFx(1478, {"fig"}, {}, {"fig"}, {}) >>),
    FixmeCell(1504),
    SolutionCell(1522, <<
      Stmt(1522, {}, {"new_observable"}),
      Stmt(1526, {"markov_average_trp_sasa", "msm"}, {"amplitudes", "timescales"}),
      Stmt(1528, {"amplitudes", "new_observable", "timescales"}, {}) >>)
  >>

\* Notebook "07 - common problems & bad data situations" (src/unnamed/part_000), code cells in document order.
Notebook07 ==
  <<
    Cell(17, <<
      Stmt(18, {}, {"plt"}),
      Stmt(19, {}, {"np"}),
      Stmt(20, {}, {"mdshare"}),
      Stmt(21, {}, {"pyemma"}) >>),
    Cell(39, <<
      StmtFx(39, {"mdshare"}, {"file"}, {}, {"hmm-doublewell-2d-100k.npz"}),
      Stmt(40, {"file", "np"}, {"fh"}),
      Stmt(41, {"fh"}, {"data"}),
      Stmt(42, {"data", "pyemma"}, {"trjs"}) >>),
    Cell(51, <<
      Stmt(51, {}, {"plot_1D_histogram_trajectories"}) >>),
    Cell(83, <<
      Stmt(83, {"plt"}, {"ax", "fig"}),
      Stmt(85, {"pyemma", "trjs"}, {"cl"}),
      Stmt(87, {"ax", "cl", "np", "plot_1D_histogram_trajectories", "plt", "trjs"}, {}),
      Stmt(89, {}, {"lags"}),
      Stmt(90, {"cl", "lags", "pyemma"}, {"its"}),
      Stmt(91, {"ax", "its", "pyemma"}, {}),
      StmtFx(92, {"fig"}, {}, {"fig"}, {}) >>),
    Cell(118, <<
      StmtFx(118, {"mdshare"}, {"file"}, {}, {"doublewell_oneway.npy"}),
      Stmt(119, {"file", "np"}, {"trjs"}) >>),
    Cell(128, <<
      Stmt(128, {"np", "plot_1D_histogram_trajectories", "plt", "trjs"}, {}) >>),
    Cell(146, <<
      Stmt(146, {"pyemma", "trjs"}, {"cl_fine"}),
      Stmt(147, {"pyemma", "trjs"}, {"cl_bad"}),
      Stmt(148, {"cl_bad", "cl_fine"}, {}) >>),
    Cell(159, <<
      Stmt(159, {"plt"}, {"axes", "fig"}),
      Stmt(160, {"axes", "cl_bad", "cl_fine"}, {"ax", "cl"}),
      Stmt(161, {"ax", "cl", "np", "plot_1D_histogram_trajectories", "plt", "trjs"}, {}),
      Stmt(162, {"cl", "pyemma"}, {"its"}),
      Stmt(163, {"ax", "its", "pyemma"}, {}),
      StmtFx(164, {"fig"}, {}, {"fig"}, {}) >>),
    Cell(186, <<
      Stmt(186, {"cl_fine", "pyemma"}, {"msm"}),
      Stmt(187, {"plt"}, {"ax", "fig"}),
      StmtFx(188, {"ax", "cl_fine", "msm"}, {}, {"ax"}, {}),
      Stmt(193, {"ax"}, {"tx"}),
      StmtFx(194, {"np", "trjs", "tx"}, {}, {"tx"}, {}),
      StmtFx(195, {"tx"}, {}, {"tx"}, {}),
      StmtFx(196, {"tx"}, {}, {"tx"}, {}),
      StmtFx(197, {"fig"}, {}, {"fig"}, {}),
      StmtFx(198, {"fig"}, {}, {"fig"}, {}) >>),
    Cell(216, <<
      Stmt(216, {"msm"}, {}) >>),
    Cell(233, <<
      StmtFx(233, {"mdshare"}, {"file"}, {}, {"doublewell_disconnected.npy"}),
      Stmt(234, {"file", "np"}, {"trjs"}) >>),
    Cell(243, <<
      Stmt(243, {"np", "plot_1D_histogram_trajectories", "plt", "trjs"}, {}) >>),
    Cell(252, <<
      Stmt(252, {"pyemma", "trjs"}, {"cl_fine"}),
      Stmt(253, {"pyemma", "trjs"}, {"cl_bad"}),
      Stmt(254, {"cl_bad", "cl_fine"}, {}) >>),
    Cell(263, <<
      Stmt(263, {"plt"}, {"axes", "fig"}),
      Stmt(264, {"axes", "cl_bad", "cl_fine"}, {"ax", "cl"}),
      Stmt(265, {"ax", "cl", "np", "plot_1D_histogram_trajectories", "plt", "trjs"}, {}),
      Stmt(266, {"cl", "pyemma"}, {"its"}),
      Stmt(267, {"ax", "its", "pyemma"}, {}),
      StmtFx(268, {"fig"}, {}, {"fig"}, {}) >>),
    Cell(292, <<
      Stmt(292, {"cl_bad", "pyemma"}, {"msm"}),
      StmtFx(293, {"msm"}, {}, {"msm"}, {}),
      Stmt(294, {"cl_bad", "np"}, {"index_order"}),
      Stmt(296, {"plt"}, {"ax", "fig"}),
      StmtFx(297, {"ax", "cl_bad", "index_order", "msm"}, {}, {"ax"}, {}),
      StmtFx(302, {"ax"}, {}, {"ax"}, {}),
      Stmt(303, {"msm"}, {"metastable_distribution", "n"}),
      StmtFx(304, {"ax", "cl_bad", "index_order", "metastable_distribution", "n"}, {}, {"ax"}, {}),
      StmtFx(310, {"ax"}, {}, {"ax"}, {}),
      StmtFx(311, {"ax", "cl_bad", "index_order", "msm"}, {}, {"ax"}, {}),
      StmtFx(317, {"ax"}, {}, {"ax"}, {}),
      Stmt(318, {"ax"}, {"_ax"}),
      Stmt(319, {"_ax"}, {"tx"}),
      StmtFx(320, {"np", "trjs", "tx"}, {}, {"tx"}, {}),
      StmtFx(321, {"tx"}, {}, {"tx"}, {}),
      StmtFx(322, {"tx"}, {}, {"tx"}, {}),
      StmtFx(323, {"fig"}, {}, {"fig"}, {}),
      StmtFx(324, {"fig"}, {}, {"fig"}, {}) >>),
    Cell(346, <<
      StmtRaises(346, {"msm"}, {"hmm"}) >>),
    Cell(364, <<
      Stmt(364, {"cl_bad", "pyemma"}, {"its"}),
      Stmt(365, {"its", "pyemma"}, {}) >>),
    Cell(393, <<
      StmtFx(393, {"mdshare"}, {"pdb"}, {}, {"alanine-dipeptide-nowater.pdb"}),
      StmtFx(394, {"mdshare"}, {"files"}, {}, {"alanine-dipeptide-*-250ns-nowater.dcd"}),
      Stmt(395, {"pdb", "pyemma"}, {"feat"}),
      StmtFx(397, {"feat"}, {}, {"feat"}, {"add_all"}),
      Stmt(398, {"feat", "files", "pyemma"}, {"data"}) >>),
    Cell(414, <<
      Stmt(414, {"data", "pyemma"}, {"tica"}),
      Stmt(415, {"tica"}, {"inp"}) >>),
    Cell(424, <<
      Stmt(424, {"inp", "np", "pyemma"}, {}) >>),
    Cell(440, <<
      Stmt(440, {"inp", "pyemma"}, {"clustering"}) >>),
    Cell(449, <<
      Stmt(449, {"clustering", "pyemma"}, {"its"}),
      Stmt(450, {"its", "pyemma"}, {}) >>),
    Cell(466, <<
      Stmt(466, {"clustering", "pyemma"}, {"msm"}),
      StmtFx(467, {"msm"}, {}, {"msm"}, {}) >>),
    Cell(476, <<
      Stmt(476, {}, {"stride"}),
      Stmt(477, {"clustering", "msm", "stride"}, {"metastable_trajs_strided"}),
      Stmt(478, {"inp", "stride"}, {"tica_trajs_strided"}),
      Stmt(479, {"metastable_trajs_strided", "np", "plt", "tica_trajs_strided"}, {}) >>),
    Cell(495, <<
      Stmt(495, {"msm", "pyemma"}, {}) >>),
    Cell(514, <<
      Stmt(514, {"plt"}, {"ax", "fig"}),
      Stmt(515, {}, {"ax_yticks_labels"}),
      Stmt(516, {"metastable_trajs_strided"}, {"n", "pcca_traj"}),
      StmtFx(517, {"ax", "msm", "n", "pcca_traj"}, {}, {"ax"}, {}),
      StmtFx(518, {"ax", "msm", "n", "pcca_traj"}, {}, {"ax"}, {}),
      StmtFx(519, {"ax_yticks_labels", "msm", "n"}, {}, {"ax_yticks_labels"}, {}),
      StmtFx(520, {"ax", "ax_yticks_labels"}, {}, {"ax"}, {}),
      StmtFx(521, {"ax", "ax_yticks_labels"}, {}, {"ax"}, {}),
      StmtFx(522, {"ax"}, {}, {"ax"}, {}),
      StmtFx(523, {"ax", "stride"}, {}, {"ax"}, {}),
      StmtFx(524, {"fig"}, {}, {"fig"}, {}) >>),
    Cell(541, <<
      Stmt(541, {"plt"}, {"axes", "fig"}),
      Stmt(543, {"inp"}, {"n", "trj"}),
      Stmt(544, {"trj"}, {"dim", "traj1d"}),
      StmtFx(545, {"axes", "dim", "n", "stride", "traj1d"}, {}, {"axes"}, {}),
      Stmt(546, {"axes"}, {"ax"}),
      StmtFx(547, {"ax", "stride"}, {}, {"ax"}, {}),
      Stmt(548, {"axes"}, {"ax", "dim"}),
      StmtFx(549, {"ax", "dim"}, {}, {"ax"}, {}),
      Stmt(550, {"axes"}, {"ax", "n"}),
      StmtFx(551, {"ax", "n"}, {}, {"ax"}, {}),
      StmtFx(552, {"fig"}, {}, {"fig"}, {}) >>),
    Cell(575, <<
      Stmt(575, {"data", "pyemma"}, {"tica"}),
      Stmt(576, {"tica"}, {"inp"}),
      Stmt(577, {"inp", "pyemma"}, {"clustering"}) >>),
    Cell(586, <<
      Stmt(586, {"inp", "np", "pyemma"}, {}) >>),
    Cell(602, <<
      Stmt(602, {"clustering", "pyemma"}, {"msm"}),
      StmtFx(603, {"msm"}, {}, {"msm"}, {}) >>),
    Cell(612, <<
      Stmt(612, {"clustering", "msm", "stride"}, {"metastable_trajs_strided"}) >>),
    Cell(621, <<
      Stmt(621, {}, {"stride"}),
      Stmt(622, {"inp", "stride"}, {"tica_trajs_strided"}),
      Stmt(623, {"metastable_trajs_strided", "np", "plt", "tica_trajs_strided"}, {}) >>),
    Cell(639, <<
      Stmt(639, {"plt"}, {"ax", "fig"}),
      Stmt(640, {}, {"ax_yticks_labels"}),
      Stmt(641, {"metastable_trajs_strided"}, {"n", "pcca_traj"}),
      StmtFx(642, {"ax", "msm", "n", "pcca_traj"}, {}, {"ax"}, {}),
      StmtFx(643, {"ax", "msm", "n", "pcca_traj"}, {}, {"ax"}, {}),
      StmtFx(644, {"ax_yticks_labels", "msm", "n"}, {}, {"ax_yticks_labels"}, {}),
      StmtFx(645, {"ax", "ax_yticks_labels"}, {}, {"ax"}, {}),
      StmtFx(646, {"ax", "ax_yticks_labels"}, {}, {"ax"}, {}),
      StmtFx(647, {"ax"}, {}, {"ax"}, {}),
      StmtFx(648, {"ax", "stride"}, {}, {"ax"}, {}),
      StmtFx(649, {"fig"}, {}, {"fig"}, {}) >>)
  >>

\* Notebook "VAMP score based feature selection" (src/unnamed/part_002), code cells in document order.
NotebookVAMP ==
  <<
    Cell(26, <<
      Stmt(27, {}, {"plt"}),
      Stmt(28, {}, {"np"}),
      Stmt(29, {}, {"mdshare"}),
      Stmt(30, {}, {"pyemma"}) >>),
    Cell(47, <<
      StmtFx(47, {"mdshare"}, {"file"}, {}, {"hmm-doublewell-2d-100k.npz"}),
      Stmt(48, {"file", "np"}, {"fh"}),
      Stmt(49, {"fh"}, {"data"}),
      Stmt(50, {"fh"}, {"good_dtraj"}) >>),
    Cell(66, <<
      Stmt(66, {"data"}, {"x"}),
      Stmt(67, {"data"}, {"y"}),
      Stmt(69, {"pyemma", "x", "y"}, {}) >>),
    Cell(78, <<
      Stmt(78, {"pyemma", "x"}, {"vamp"}),
      Stmt(79, {"vamp", "x"}, {"s_x"}),
      Stmt(80, {"s_x"}, {}) >>),
    Cell(89, <<
      Stmt(89, {"pyemma", "y"}, {"vamp"}),
      Stmt(90, {"vamp", "y"}, {"s_y"}),
      Stmt(91, {"s_y"}, {}) >>),
    Cell(100, <<
      Stmt(100, {"data", "pyemma"}, {"vamp"}),
      Stmt(101, {"data", "vamp"}, {"s_all"}),
      Stmt(102, {"s_all"}, {}) >>),
    Cell(111, <<
      Stmt(111, {"s_all", "s_y"}, {}) >>),
    Cell(135, <<
      StmtFx(135, {"mdshare"}, {"pdb"}, {}, {"alanine-dipeptide-nowater.pdb"}),
      StmtFx(136, {"mdshare"}, {"files"}, {}, {"alanine-dipeptide-*-250ns-nowater.dcd"}),
      Stmt(137, {"pdb"}, {}),
      Stmt(138, {"files"}, {}) >>),
    Cell(154, <<
      Stmt(154, {}, {"lag"}) >>),
    Cell(163, <<
      Stmt(163, {"files", "pdb", "pyemma"}, {"reader_rmsd"}),
      StmtFx(164, {"pdb", "reader_rmsd"}, {}, {"reader_rmsd"}, {"add_minrmsd_to_ref"}),
      Stmt(166, {"lag", "pyemma", "reader_rmsd"}, {"vamp_minRMSD"}),
      StmtFx(167, {"vamp_minRMSD"}, {}, {"vamp_minRMSD"}, {}) >>),
    Cell(183, <<
      Stmt(183, {"files", "pdb", "pyemma"}, {"reader_bt"}),
      StmtFx(184, {"reader_bt"}, {}, {"reader_bt"}, {"add_backbone_torsions"}),
      Stmt(186, {"lag", "pyemma", "reader_bt"}, {"vamp_bt"}),
      StmtFx(187, {"vamp_bt"}, {}, {"vamp_bt"}, {}) >>),
    Cell(203, <<
      Stmt(203, {"np", "pyemma", "reader_rmsd"}, {"ax"}),
      StmtFx(206, {"ax"}, {}, {"ax"}, {}) >>),
    Cell(222, <<
      Stmt(222, {"data", "pyemma"}, {"cl_rmsd"}) >>),
    Cell(238, <<
      Stmt(238, {"cl_rmsd", "pyemma"}, {"its_rmsd"}),
      Stmt(239, {"its_rmsd", "pyemma"}, {"ax"}),
      StmtFx(240, {"ax"}, {}, {"ax"}, {}) >>),
    Cell(256, <<
      Stmt(256, {"cl_rmsd", "lag", "pyemma"}, {"msm_rmsd"}),
      StmtFx(257, {"cl_rmsd", "msm_rmsd"}, {}, {"msm_rmsd"}, {}) >>),
    Cell(266, <<
      Stmt(266, {"pyemma", "reader_bt"}, {"cl_backbone_torsions"}) >>),
    Cell(275, <<
      Stmt(275, {"cl_backbone_torsions", "pyemma"}, {"its_bt"}),
      Stmt(276, {"its_bt", "pyemma"}, {}) >>),
    Cell(292, <<
      Stmt(292, {"cl_backbone_torsions", "pyemma"}, {"msm_bt"}),
      StmtFx(293, {"cl_backbone_torsions", "msm_bt"}, {}, {"msm_bt"}, {}) >>),
    Cell(321, <<
      StmtFx(321, {"mdshare"}, {"pdb"}, {}, {"pentapeptide-impl-solv.pdb"}),
      StmtFx(322, {"mdshare"}, {"files"}, {}, {"pentapeptide-*-500ns-impl-solv.xtc"}),
      Stmt(325, {"pdb", "pyemma"}, {"feat"}),
      Stmt(326, {"feat", "files", "pyemma"}, {"reader"}),
      Stmt(327, {}, {"n_processes"}),
      Stmt(328, {}, {"lag"}) >>),
    SolutionCell(340, <<
      StmtFx(340, {"mdshare"}, {"pdb"}, {}, {"pentapeptide-impl-solv.pdb"}),
      StmtFx(341, {"mdshare"}, {"files"}, {}, {"pentapeptide-*-500ns-impl-solv.xtc"}),
      Stmt(344, {"pdb", "pyemma"}, {"feat"}),
      Stmt(345, {"feat", "files", "pyemma"}, {"reader"}),
      Stmt(346, {}, {"n_processes"}),
      Stmt(347, {}, {"lag"}),
      Stmt(350, {}, {"test_feature"}),
      Stmt(361, {"feat", "np"}, {"distance_pairs"}),
      Stmt(363, {"distance_pairs", "feat"}, {"features"}),
      Stmt(369, {}, {"results"}),
      Stmt(370, {"features"}, {"args", "feat_name", "kw"}),
      Stmt(371, {"feat_name"}, {}),
      StmtFx(372, {"args", "feat", "feat_name", "kw", "lag", "n_processes", "pyemma", "reader", "test_feature"}, {"score"}, {"feat"}, {}),
      StmtFx(373, {"feat_name", "results", "score"}, {}, {"results"}, {}),
      Stmt(376, {"plt"}, {"ax", "fig"}),
      Stmt(377, {"results"}, {"f", "i", "score"}),
      StmtFx(378, {"ax", "f", "i", "score"}, {}, {"ax"}, {}),
      StmtFx(379, {"ax"}, {}, {"ax"}, {}),
      StmtFx(380, {"ax"}, {}, {"ax"}, {}),
      StmtFx(381, {"ax"}, {}, {"ax"}, {}),
      StmtFx(382, {"ax", "lag", "n_processes"}, {}, {"ax"}, {}) >>),
    FixmeCell(416),
    SolutionCell(469, <<
      Stmt(469, {}, {"results_msm"}),
      Stmt(470, {}, {"n_clusters"}),
      StmtFx(472, {"feat"}, {}, {"feat"}, {}),
      StmtFx(473, {"distance_pairs", "feat"}, {}, {"feat"}, {"add_distances"}),
      Stmt(474, {"lag", "n_processes", "pyemma", "reader"}, {"data"}),
      Stmt(477, {}, {"score_discretization"}),
      Stmt(490, {"pyemma"}, {"cl"}),
      StmtFx(491, {"cl", "data", "lag", "n_clusters", "n_processes", "pyemma", "results_msm", "score_discretization"}, {}, {"cl", "results_msm"}, {}),
      Stmt(495, {"n_clusters"}, {"k"}),
      Stmt(496, {"k", "np"}, {"inds"}),
      Stmt(497, {"cl", "inds"}, {"new_initial_centers"}),
      StmtFx(498, {"cl", "data", "k", "lag", "n_processes", "new_initial_centers", "pyemma", "results_msm", "score_discretization"}, {}, {"cl", "results_msm"}, {}),
      Stmt(500, {"plt"}, {"ax", "fig"}),
      Stmt(501, {"results_msm"}, {"i", "score", "scores_cv", "x"}),
      Stmt(502, {"scores_cv"}, {"y_mean"}),
      StmtFx(503, {"ax", "i", "scores_cv", "x", "y_mean"}, {}, {"ax"}, {}),
      StmtFx(505, {"ax", "i", "score", "x"}, {}, {"ax"}, {}),
      StmtFx(507, {"ax"}, {}, {"ax"}, {}),
      StmtFx(508, {"ax"}, {}, {"ax"}, {}),
      StmtFx(509, {"ax"}, {}, {"ax"}, {}),
      StmtFx(510, {"ax"}, {}, {"ax"}, {}) >>)
  >>

-----------------------------------------------------------------------------
(* Part 1: the kernel session.                                             *)

NotebookIds == {"01", "02", "03", "05", "06", "07", "vamp"}

Notebook(id) ==
  CASE id = "01" -> Notebook01
    [] id = "02" -> Notebook02
    [] id = "03" -> Notebook03
    [] id = "05" -> Notebook05
    [] id = "06" -> Notebook06
    [] id = "07" -> Notebook07
    [] id = "vamp" -> NotebookVAMP

Range(f) == {f[i] : i \in DOMAIN f}

AllStmts == UNION {UNION {Range(c.stmts) : c \in Range(Notebook(id))} : id \in NotebookIds}

\* Every name that occurs in a notebook.
Names == UNION {s.r \cup s.w \cup s.m \cup s.t : s \in AllStmts}

\* The body of a function handed to threading.Timer: stop_spin reads the
\* global p when it runs and sets p.spin = False.
TimerCallback(fn) ==
  CASE fn = "stop_spin" -> [r |-> {"p"}, m |-> {"p"}]

\* threading.Timer is a Thread subclass: start() runs the function on that
\* new thread once the interval has passed, not on the thread that called it.
TimerThread_Inline == "main"

TimerThread == "timer"

\* A Timer runs its function once.
CanFire(t) == t.runs = 0

\* The cells a reader working through a notebook executes: the unfinished
\* #FIXME exercise cells cannot run, everything else does, solutions included.
Runnable_NoSolutions(c) == ~c.fixme /\ ~c.sol

Runnable(c) == ~c.fixme

Bound(space) == {n \in Names : space[n] # 0}

\* An assignment statement binds its targets after its right-hand side has
\* been evaluated; the bindings outlive the cell.
Bind_Nothing(space, s) == space

Bind(space, s) == [n \in Names |-> IF n \in s.w THEN s.ln ELSE space[n]]

\* The right-hand side raised: the assignment never happens.
NsAfterRaise_Binds(space, s) == Bind(space, s)

NsAfterRaise(space, s) == space

\* Data origins an executed statement gives to what it binds or mutates.
Inflow(pv, s) == s.o \cup UNION {pv[n] : n \in s.r}

Flow(pv, s) ==
  [n \in Names |->
     IF n \in s.w THEN Inflow(pv, s)
     ELSE IF n \in s.m THEN pv[n] \cup Inflow(pv, s)
     ELSE pv[n]]

\* Every mdshare.fetch call of the cells that run: the file (or file
\* pattern) asked for, its extension, and the working_directory given.
Fetches ==
  { [nb |-> "01", ln |-> 39, name |-> "hmm-doublewell-2d-100k.npz", ext |-> "npz", dir |-> "data"],
    [nb |-> "01", ln |-> 99, name |-> "alanine-dipeptide-nowater.pdb", ext |-> "pdb", dir |-> "data"],
    [nb |-> "01", ln |-> 100, name |-> "alanine-dipeptide-*-250ns-nowater.dcd", ext |-> "dcd", dir |-> "data"],
    [nb |-> "01", ln |-> 412, name |-> "pentapeptide-impl-solv.pdb", ext |-> "pdb", dir |-> "data"],
    [nb |-> "01", ln |-> 413, name |-> "pentapeptide-*-500ns-impl-solv.xtc", ext |-> "xtc", dir |-> "data"],
    [nb |-> "02", ln |-> 38, name |-> "hmm-doublewell-2d-100k.npz", ext |-> "npz", dir |-> "data"],
    [nb |-> "02", ln |-> 286, name |-> "alanine-dipeptide-nowater.pdb", ext |-> "pdb", dir |-> "data"],
    [nb |-> "02", ln |-> 287, name |-> "alanine-dipeptide-*-250ns-nowater.dcd", ext |-> "dcd", dir |-> "data"],
    [nb |-> "02", ln |-> 616, name |-> "pentapeptide-impl-solv.pdb", ext |-> "pdb", dir |-> "data"],
    [nb |-> "02", ln |-> 617, name |-> "pentapeptide-*-500ns-impl-solv.xtc", ext |-> "xtc", dir |-> "data"],
    [nb |-> "03", ln |-> 38, name |-> "hmm-doublewell-2d-100k.npz", ext |-> "npz", dir |-> "data"],
    [nb |-> "03", ln |-> 126, name |-> "alanine-dipeptide-nowater.pdb", ext |-> "pdb", dir |-> "data"],
    [nb |-> "03", ln |-> 127, name |-> "alanine-dipeptide-*-250ns-nowater.dcd", ext |-> "dcd", dir |-> "data"],
    [nb |-> "03", ln |-> 390, name |-> "pentapeptide-impl-solv.pdb", ext |-> "pdb", dir |-> "data"],
    [nb |-> "03", ln |-> 391, name |-> "pentapeptide-*-500ns-impl-solv.xtc", ext |-> "xtc", dir |-> "data"],
    [nb |-> "05", ln |-> 624, name |-> "hmm-doublewell-2d-100k.npz", ext |-> "npz", dir |-> "data"],
    [nb |-> "05", ln |-> 954, name |-> "alanine-dipeptide-nowater.pdb", ext |-> "pdb", dir |-> "data"],
    [nb |-> "05", ln |-> 955, name |-> "alanine-dipeptide-*-250ns-nowater.dcd", ext |-> "dcd", dir |-> "data"],
    [nb |-> "06", ln |-> 748, name |-> "hmm-doublewell-2d-100k.npz", ext |-> "npz", dir |-> "data"],
    [nb |-> "06", ln |-> 1014, name |-> "alanine-dipeptide-nowater.pdb", ext |-> "pdb", dir |-> "data"],
    [nb |-> "06", ln |-> 1015, name |-> "alanine-dipeptide-*-250ns-nowater.dcd", ext |-> "dcd", dir |-> "data"],
    [nb |-> "06", ln |-> 1208, name |-> "pentapeptide-impl-solv.pdb", ext |-> "pdb", dir |-> "data"],
    [nb |-> "06", ln |-> 1209, name |-> "pentapeptide-*-500ns-impl-solv.xtc", ext |-> "xtc", dir |-> "data"],
    [nb |-> "07", ln |-> 39, name |-> "hmm-doublewell-2d-100k.npz", ext |-> "npz", dir |-> "data"],
    [nb |-> "07", ln |-> 118, name |-> "doublewell_oneway.npy", ext |-> "npy", dir |-> "data"],
    [nb |-> "07", ln |-> 233, name |-> "doublewell_disconnected.npy", ext |-> "npy", dir |-> "data"],
    [nb |-> "07", ln |-> 393, name |-> "alanine-dipeptide-nowater.pdb", ext |-> "pdb", dir |-> "data"],
    [nb |-> "07", ln |-> 394, name |-> "alanine-dipeptide-*-250ns-nowater.dcd", ext |-> "dcd", dir |-> "data"],
    [nb |-> "vamp", ln |-> 47, name |-> "hmm-doublewell-2d-100k.npz", ext |-> "npz", dir |-> "data"],
    [nb |-> "vamp", ln |-> 135, name |-> "alanine-dipeptide-nowater.pdb", ext |-> "pdb", dir |-> "data"],
    [nb |-> "vamp", ln |-> 136, name |-> "alanine-dipeptide-*-250ns-nowater.dcd", ext |-> "dcd", dir |-> "data"],
    [nb |-> "vamp", ln |-> 321, name |-> "pentapeptide-impl-solv.pdb", ext |-> "pdb", dir |-> "data"],
    [nb |-> "vamp", ln |-> 322, name |-> "pentapeptide-*-500ns-impl-solv.xtc", ext |-> "xtc", dir |-> "data"],
    [nb |-> "vamp", ln |-> 340, name |-> "pentapeptide-impl-solv.pdb", ext |-> "pdb", dir |-> "data"],
    [nb |-> "vamp", ln |-> 341, name |-> "pentapeptide-*-500ns-impl-solv.xtc", ext |-> "xtc", dir |-> "data"] }

\* Every call of a function that can write a file, with its outfile argument.
SaveCalls ==
  { [nb |-> "06", ln |-> 1305, call |-> "save_traj", outfile |-> "None"] }

\* The files a statement creates: mdshare.fetch downloads into
\* working_directory; save_traj with outfile=None returns the trajectory
\* and writes nothing.
Written_IntoCwd(id, s) ==
  {[dir |-> ".", name |-> f.name, ext |-> f.ext, kind |-> "dataset"] :
     f \in {g \in Fetches : g.nb = id /\ g.ln = s.ln}}

Written_SaveTraj(id, s) ==
  {[dir |-> f.dir, name |-> f.name, ext |-> f.ext, kind |-> "dataset"] :
     f \in {g \in Fetches : g.nb = id /\ g.ln = s.ln}}
  \cup {[dir |-> ".", name |-> c.outfile, ext |-> "", kind |-> "result"] :
          c \in {d \in SaveCalls : d.nb = id /\ d.ln = s.ln}}

Written(id, s) ==
  {[dir |-> f.dir, name |-> f.name, ext |-> f.ext, kind |-> "dataset"] :
     f \in {g \in Fetches : g.nb = id /\ g.ln = s.ln}}
  \cup {[dir |-> ".", name |-> c.outfile, ext |-> "", kind |-> "result"] :
          c \in {d \in SaveCalls : d.nb = id /\ d.ln = s.ln /\ d.outfile # "None"}}

NoExec == [thread |-> "none", ln |-> 0, fn |-> "", inCell |-> FALSE]

KernelInit ==
  /\ nb \in NotebookIds
  /\ cell = 1
  /\ stmt = 1
  /\ running = FALSE
  /\ ns = [n \in Names |-> 0]
  /\ prov = [n \in Names |-> {}]
  /\ errs = {}
  /\ timers = {}
  /\ lastExec = NoExec
  /\ disk = {}

CurCell == Notebook(nb)[cell]

CurStmt == CurCell.stmts[stmt]

\* The reader starts the next cell of the document.
StartCell ==
  /\ ~running
  /\ cell <= Len(Notebook(nb))
  /\ Runnable(CurCell)
  /\ running' = TRUE
  /\ stmt' = 1
  /\ UNCHANGED <<nb, cell, ns, prov, errs, timers, lastExec, disk, obs>>

\* The reader passes over a cell that is not executed.
SkipCell ==
  /\ ~running
  /\ cell <= Len(Notebook(nb))
  /\ ~Runnable(CurCell)
  /\ cell' = cell + 1
  /\ UNCHANGED <<nb, stmt, running, ns, prov, errs, timers, lastExec, disk, obs>>

\* An exception ends the cell; the kernel stays alive with its namespace.
Abort(ln, kind, space) ==
  /\ errs' = errs \cup {[ln |-> ln, kind |-> kind]}
  /\ ns' = space
  /\ running' = FALSE
  /\ cell' = cell + 1
  /\ stmt' = 1
  /\ UNCHANGED <<nb, prov, timers, disk, obs>>

\* The main thread executes the next statement of the running cell.  Reading
\* an unbound name raises NameError.
ExecStmt ==
  /\ running
  /\ stmt <= Len(CurCell.stmts)
  /\ lastExec' = [thread |-> "main", ln |-> CurStmt.ln, fn |-> "", inCell |-> TRUE]
  /\ IF CurStmt.r \subseteq Bound(ns)
       THEN /\ ns' = Bind(ns, CurStmt)
            /\ prov' = Flow(prov, CurStmt)
            /\ timers' = timers \cup
                 {[fn |-> f, ln |-> CurStmt.ln, cell |-> cell, runs |-> 0] : f \in CurStmt.t}
            /\ disk' = disk \cup Written(nb, CurStmt)
            /\ stmt' = stmt + 1
            /\ UNCHANGED <<nb, cell, running, errs, obs>>
       ELSE Abort(CurStmt.ln, "NameError", ns)

\* The library call of the statement raises (the outcome is the library's).
ExecRaise ==
  /\ running
  /\ stmt <= Len(CurCell.stmts)
  /\ CurStmt.x
  /\ CurStmt.r \subseteq Bound(ns)
  /\ lastExec' = [thread |-> "main", ln |-> CurStmt.ln, fn |-> "", inCell |-> TRUE]
  /\ Abort(CurStmt.ln, "LibraryError", NsAfterRaise(ns, CurStmt))

\* The last statement of the cell has run.
EndCell ==
  /\ running
  /\ stmt > Len(CurCell.stmts)
  /\ running' = FALSE
  /\ cell' = cell + 1
  /\ stmt' = 1
  /\ UNCHANGED <<nb, ns, prov, errs, timers, lastExec, disk, obs>>

\* A started Timer runs its function, at any moment after start(): while the
\* issuing cell is still running, between cells, or during a later cell.
TimerFire ==
  \E t \in timers :
    /\ CanFire(t)
    /\ timers' = (timers \ {t}) \cup {[t EXCEPT !.runs = @ + 1]}
    /\ lastExec' = [thread |-> TimerThread, ln |-> ns[t.fn], fn |-> t.fn,
                    inCell |-> running /\ cell = t.cell]
    /\ errs' = IF TimerCallback(t.fn).r \subseteq Bound(ns)
                 THEN errs
                 ELSE errs \cup {[ln |-> ns[t.fn], kind |-> "NameError"]}
    /\ UNCHANGED <<nb, cell, stmt, running, ns, prov, disk, obs>>

KernelNext ==
  \/ StartCell
  \/ SkipCell
  \/ ExecStmt
  \/ ExecRaise
  \/ EndCell
  \/ TimerFire

\* The arrays of part 2; the kernel session leaves them alone.
ObsEmpty ==
  [pc |-> "idle", data |-> <<>>, dihedral |-> <<>>, dtrajs |-> <<>>,
   ftraj |-> <<>>, observable_vec |-> <<>>, new_ftraj |-> <<>>,
   new_observable_vec |-> <<>>, ftrajs |-> <<>>, jcoupl_markov |-> <<>>]

Init == KernelInit /\ obs = ObsEmpty

Next == KernelNext

Spec == Init /\ [][Next]_vars

Finished == ~running /\ cell > Len(Notebook(nb))

NameErrors == {e \in errs : e.kind = "NameError"}

-----------------------------------------------------------------------------
(* Properties of the kernel session.                                       *)

AboutToRun == running /\ stmt <= Len(CurCell.stmts)

LibraryErrors == {e \in errs : e.kind = "LibraryError"}

\* C1, as stated: all code runs in a single thread and synchronously with its
\* cell; no statement executes on another thread or after the cell that
\* issued it has finished.
C1_SingleThread ==
  /\ lastExec.thread \in {"none", "main"}
  /\ lastExec.thread = "main" => lastExec.inCell

\* C1, amended: the statements of the cells run on the main thread while
\* their cell executes; the only code that runs elsewhere is the body of
\* stop_spin in notebook 01, which a started threading.Timer runs on its own
\* thread, at most once per Timer, possibly after the issuing cell finished.
C1_OnlyStopSpinOffThread ==
  /\ lastExec.thread \in {"none", "main", "timer"}
  /\ lastExec.thread = "main" => lastExec.inCell /\ lastExec.fn = ""
  /\ lastExec.thread = "timer" =>
       /\ nb = "01"
       /\ lastExec.fn = "stop_spin"
       /\ \E t \in timers : t.fn = "stop_spin" /\ t.runs = 1 /\ t.ln \in {132, 436}
  /\ \A t \in timers : t.runs <= 1 /\ ns[t.fn] # 0

\* stop_spin has run on the timer thread after its cell had finished.
C1_TimerAfterCell ==
  /\ lastExec.thread = "timer"
  /\ lastExec.fn = "stop_spin"
  /\ ~lastExec.inCell

\* C2: executing a notebook in document order (solution cells run, #FIXME
\* cells skipped), every name a statement reads is already bound: no
\* NameError is raised; stride is the binding of line 476 when notebook 07
\* builds metastable_trajs_strided the second time; distance_pairs, reader,
\* feat, lag and n_processes are bound while the solution of VAMP exercise 2
\* runs.
C2_NamesBound ==
  /\ NameErrors = {}
  /\ AboutToRun => CurStmt.r \subseteq Bound(ns)
  /\ (nb = "07" /\ AboutToRun /\ CurStmt.ln = 612) =>
       "stride" \in CurStmt.r /\ ns["stride"] = 476
  /\ (nb = "vamp" /\ running /\ CurCell.ln = 469) =>
       {"distance_pairs", "reader", "feat", "lag", "n_processes"} \subseteq Bound(ns)

\* Notebook 07 has built metastable_trajs_strided at line 612 from the stride
\* bound at line 476.
C2_SecondStridedBuilt ==
  /\ nb = "07"
  /\ lastExec.ln = 612
  /\ ns["metastable_trajs_strided"] = 612
  /\ ns["stride"] = 476

CoarseGrainFailed == nb = "07" /\ [ln |-> 346, kind |-> "LibraryError"] \in errs

\* C4: nothing catches the exception of a failing library call: the cell
\* ends there, and every binding and data origin of the namespace is what it
\* was before the call.  After msm.coarse_grain(2) of notebook 07 has failed,
\* hmm stays unbound, msm, cl_bad and trjs keep their bindings, and every
\* later cell runs without reading hmm.  (What the library does inside the
\* objects before it raises is not part of the notebooks.)
C4_FailureLeavesNamespace ==
  [][ /\ (LibraryErrors' # LibraryErrors) =>
           /\ ns' = ns
           /\ prov' = prov
           /\ running /\ ~running'
           /\ cell' = cell + 1
           /\ \A n \in {"msm", "cl_bad", "trjs"} : ns'[n] = ns[n] /\ ns[n] # 0
           /\ ns'["hmm"] = 0
      /\ CoarseGrainFailed' =>
           /\ ns'["hmm"] = 0
           /\ NameErrors' = {}
           /\ AboutToRun' => ("hmm" \notin CurStmt'.r /\ CurStmt'.r \subseteq Bound(ns'))
    ]_vars

\* Notebook 07 has been run to its end after the failure of line 346.
C4_FinishedAfterFailure ==
  /\ CoarseGrainFailed
  /\ Finished
  /\ ns["hmm"] = 0
  /\ ns["metastable_trajs_strided"] = 612

\* C5: cl_rmsd of the VAMP notebook is a clustering of the minRMSD feature
\* read by reader_rmsd (and of nothing else).
C5_ClRmsdFromMinRMSD ==
  (nb = "vamp" /\ ns["cl_rmsd"] # 0) =>
    /\ "add_minrmsd_to_ref" \in prov["cl_rmsd"]
    /\ "hmm-doublewell-2d-100k.npz" \notin prov["cl_rmsd"]

\* What line 222 does: cl_rmsd is a clustering of data, the double-well
\* trajectory of line 49.
C5_ClRmsdFromDoubleWell ==
  /\ nb = "vamp"
  /\ ns["cl_rmsd"] = 222
  /\ prov["cl_rmsd"] = {"hmm-doublewell-2d-100k.npz"}
  /\ "add_minrmsd_to_ref" \in prov["reader_rmsd"]

-----------------------------------------------------------------------------
(* Part 2: the per-state observable vectors of notebook 06.                *)
(*                                                                         *)
(* obs holds the arrays of the notebook.  Array values are exact rationals *)
(* <<numerator, denominator>>; the mean of an empty selection is NaN.      *)

\* Frames of one trajectory (at most), largest coordinate, number of cluster
\* centers, and trajectories (at most) of the molecular data set with the
\* frames of each.
MaxFrames == 2

MaxCoord == 1

NClusters == 2

MaxTrajs == 2

TrajFrames == 1

NaN == <<0, 0>>

RatAdd(a, b) ==
  IF a[2] = b[2] THEN <<a[1] + b[1], a[2]>> ELSE <<a[1] * b[2] + b[1] * a[2], a[2] * b[2]>>

\* o(x, y) = 0.5 x + y + 4
observable(x, y) == <<x + 2 * y + 8, 2>>

\* o2(x, y) = (2 + y)^2 + x
new_observable(x, y) == <<(2 + y) * (2 + y) + x, 1>>

\* 8.754 cos^2(theta) - 1.222 cos(theta) + 0.111; theta is given by its cosine.
Karplus(c) == <<8754 * c * c - 1222 * c + 111, 1000>>

\* dt == i
Mask_Other(dt, i) == [t \in 1..Len(dt) |-> dt[t] # i]

Mask(dt, i) == [t \in 1..Len(dt) |-> dt[t] = i]

\* a[mask]: the elements of a where the mask is True, in order.
RECURSIVE BoolIndex(_, _)
BoolIndex(a, mask) ==
  IF Len(a) = 0 THEN <<>>
  ELSE IF mask[Len(a)]
    THEN Append(BoolIndex(SubSeq(a, 1, Len(a) - 1), SubSeq(mask, 1, Len(a) - 1)), a[Len(a)])
    ELSE BoolIndex(SubSeq(a, 1, Len(a) - 1), SubSeq(mask, 1, Len(a) - 1))

RECURSIVE RatSum(_)
RatSum(a) == IF Len(a) = 1 THEN Head(a) ELSE RatAdd(RatSum(Tail(a)), Head(a))

\* a.mean()
Mean(a) == IF Len(a) = 0 THEN NaN ELSE <<RatSum(a)[1], RatSum(a)[2] * Len(a)>>

\* np.hstack of a list of 1-d arrays
RECURSIVE hstack(_)
hstack(arrays) == IF Len(arrays) = 0 THEN <<>> ELSE Head(arrays) \o hstack(Tail(arrays))

\* np.array([a[dt == i].mean() for i in range(n)])
StateMeans(a, dt, n) == [i \in 0..(n - 1) |-> Mean(BoolIndex(a, Mask(dt, i)))]

SeqsUpTo(S, n) == UNION {[1..k -> S] : k \in 1..n}

Coords == 0..MaxCoord

ClusterIndices == 0..(NClusters - 1)

Cosines == {0, 1}

\* The double well: data is one trajectory of (x, y) frames and
\* cluster.dtrajs holds its one discrete trajectory.
InitDoubleWell ==
  \E data \in SeqsUpTo(Coords \X Coords, MaxFrames) :
    \E dt \in [1..Len(data) -> ClusterIndices] :
      obs = [ObsEmpty EXCEPT !.pc = "doublewell", !.data = data, !.dtrajs = <<dt>>]

\* Alanine dipeptide: dihedral is a list of trajectories of one angle, and
\* cluster.dtrajs has one discrete trajectory for each.
InitAla2 ==
  \E k \in 1..MaxTrajs :
    \E dihedral \in [1..k -> [1..TrajFrames -> Cosines]] :
      \E dts \in [1..k -> [1..TrajFrames -> ClusterIndices]] :
        obs = [ObsEmpty EXCEPT !.pc = "ala2", !.dihedral = dihedral, !.dtrajs = dts]

InitObs ==
  /\ nb = "06"
  /\ cell = 1
  /\ stmt = 1
  /\ running = FALSE
  /\ ns = [n \in Names |-> 0]
  /\ prov = [n \in Names |-> {}]
  /\ errs = {}
  /\ timers = {}
  /\ lastExec = NoExec
  /\ disk = {}
  /\ InitDoubleWell \/ InitAla2

\* ftraj = observable(*data.T)
ComputeFtraj ==
  /\ obs.pc = "doublewell"
  /\ obs' = [obs EXCEPT !.pc = "ftraj",
               !.ftraj = [t \in 1..Len(obs.data) |-> observable(obs.data[t][1], obs.data[t][2])]]
  /\ UNCHANGED kernelVars

\* observable_vec = np.array([ftraj[cluster.dtrajs[0] == i].mean() ...])
ComputeObservableVec ==
  /\ obs.pc = "ftraj"
  /\ obs' = [obs EXCEPT !.pc = "observable_vec",
               !.observable_vec = StateMeans(obs.ftraj, obs.dtrajs[1], NClusters)]
  /\ UNCHANGED kernelVars

\* new_ftraj = new_observable(*data.T)
ComputeNewFtraj ==
  /\ obs.pc = "observable_vec"
  /\ obs' = [obs EXCEPT !.pc = "new_ftraj",
               !.new_ftraj = [t \in 1..Len(obs.data) |->
                                new_observable(obs.data[t][1], obs.data[t][2])]]
  /\ UNCHANGED kernelVars

\* new_observable_vec = np.array([ftraj[cluster.dtrajs[0] == i].mean() ...])
ComputeNewObservableVec ==
  /\ obs.pc = "new_ftraj"
  /\ obs' = [obs EXCEPT !.pc = "new_observable_vec",
               !.new_observable_vec = StateMeans(obs.ftraj, obs.dtrajs[1], NClusters)]
  /\ UNCHANGED kernelVars

\* ftrajs = [Karplus(t.ravel()) for t in dihedral]
ComputeFtrajs ==
  /\ obs.pc = "ala2"
  /\ obs' = [obs EXCEPT !.pc = "ftrajs",
               !.ftrajs = [k \in 1..Len(obs.dihedral) |->
                             [t \in 1..Len(obs.dihedral[k]) |-> Karplus(obs.dihedral[k][t])]]]
  /\ UNCHANGED kernelVars

\* jcoupl_markov = np.array([[ft[dt == i].mean() for i in range(n)]
\*     for dt, ft in zip([np.hstack(cluster.dtrajs)], [np.hstack(ftrajs)])][0])
ComputeJcouplMarkov ==
  /\ obs.pc = "ftrajs"
  /\ LET zipped == << <<hstack(obs.dtrajs), hstack(obs.ftrajs)>> >>
         rows == [j \in 1..Len(zipped) |-> StateMeans(zipped[j][2], zipped[j][1], NClusters)]
     IN obs' = [obs EXCEPT !.pc = "jcoupl_markov", !.jcoupl_markov = rows[1]]
  /\ UNCHANGED kernelVars

NextObs ==
  \/ ComputeFtraj
  \/ ComputeObservableVec
  \/ ComputeNewFtraj
  \/ ComputeNewObservableVec
  \/ ComputeFtrajs
  \/ ComputeJcouplMarkov

SpecObs == InitObs /\ [][NextObs]_vars

-----------------------------------------------------------------------------
(* Properties of the observable vectors.                                   *)

\* The frames (trajectory, index) whose discrete state is i.
FramesOf(i) ==
  {f \in UNION {{<<k, t>> : t \in 1..Len(obs.dtrajs[k])} : k \in 1..Len(obs.dtrajs)} :
     obs.dtrajs[f[1]][f[2]] = i}

\* Twice o(x, y) of a frame, o2(x, y) of a frame, and 1000 times the
\* J-coupling of a frame.
TwiceO(f) == obs.data[f[2]][1] + 2 * obs.data[f[2]][2] + 8

O2(f) == (obs.data[f[2]][2] + 2) * (obs.data[f[2]][2] + 2) + obs.data[f[2]][1]

MilliJ(f) ==
  8754 * obs.dihedral[f[1]][f[2]] * obs.dihedral[f[1]][f[2]]
    - 1222 * obs.dihedral[f[1]][f[2]] + 111

FrameValue(q, f) ==
  CASE q = "o" -> TwiceO(f)
    [] q = "o2" -> O2(f)
    [] q = "J" -> MilliJ(f)

RECURSIVE SumOver(_, _)
SumOver(S, q) ==
  IF S = {} THEN 0
  ELSE LET f == CHOOSE g \in S : TRUE IN FrameValue(q, f) + SumOver(S \ {f}, q)

\* vec[i] is the mean over the frames of state i of the quantity q, which
\* FrameValue gives multiplied by scale.
IsStateMean(vec, i, q, scale) ==
  /\ vec[i][2] # 0
  /\ vec[i][1] * scale * Cardinality(FramesOf(i)) = SumOver(FramesOf(i), q) * vec[i][2]

\* C6: new_observable_vec[i] is the mean of o2(x, y) = (y + 2)^2 + x over
\* the frames of state i.
C6_NewVecIsMeanOfO2 ==
  obs.pc = "new_observable_vec" =>
    \A i \in ClusterIndices :
      FramesOf(i) # {} => IsStateMean(obs.new_observable_vec, i, "o2", 1)

\* What line 977 computes: new_observable_vec is observable_vec again, the
\* state means of the first observable, and differs from the means of o2.
C6_NewVecIsOldVec ==
  /\ obs.pc = "new_observable_vec"
  /\ obs.new_observable_vec = obs.observable_vec
  /\ \E i \in ClusterIndices :
       /\ FramesOf(i) # {}
       /\ IsStateMean(obs.new_observable_vec, i, "o", 2)
       /\ ~IsStateMean(obs.new_observable_vec, i, "o2", 1)

\* C7: for every cluster index i in 0..n_clusters-1 with at least one frame,
\* observable_vec[i] is the mean of o(x, y) over exactly the frames of state
\* i, and jcoupl_markov[i] is the mean of the J-coupling over exactly the
\* frames of state i of all trajectories together; both have n_clusters
\* entries.
C7_WithinStateAverages ==
  /\ obs.pc \in {"observable_vec", "new_ftraj", "new_observable_vec"} =>
       /\ DOMAIN obs.observable_vec = ClusterIndices
       /\ \A i \in ClusterIndices :
            FramesOf(i) # {} => IsStateMean(obs.observable_vec, i, "o", 2)
  /\ obs.pc = "jcoupl_markov" =>
       /\ DOMAIN obs.jcoupl_markov = ClusterIndices
       /\ \A i \in ClusterIndices :
            FramesOf(i) # {} => IsStateMean(obs.jcoupl_markov, i, "J", 1000)

\* A state holds frames of two trajectories with different J-couplings, and
\* jcoupl_markov has been computed.
C7_MeanAcrossTrajectories ==
  /\ obs.pc = "jcoupl_markov"
  /\ \E i \in ClusterIndices :
       \E f, g \in FramesOf(i) : f[1] # g[1] /\ MilliJ(f) # MilliJ(g)

-----------------------------------------------------------------------------
(* Part 3 (specification SpecCall): a call of one of the functions the     *)
(* notebooks define.  The body runs statement by statement in a frame      *)
(* that holds the parameters; a name that is neither a parameter nor       *)
(* assigned in the body is looked up in the notebook namespace.            *)

Params(fn) ==
  CASE fn = "plot_1D_histogram_trajectories" -> {"trjs", "cl", "max_traj_length", "ax"}
    [] fn = "test_feature" -> {"feat_name", "args", "kwargs"}
    [] fn = "score_discretization" -> {"k", "init_centers"}
    [] fn = "stop_spin" -> {}

FunctionBody(fn) ==
  CASE fn = "plot_1D_histogram_trajectories" ->
         << Stmt(52, {"ax"}, {}),
            Stmt(53, {"plt"}, {"ax", "fig"}),
            Stmt(54, {"trjs"}, {"_traj", "n"}),
            StmtFx(55, {"_traj", "ax", "n"}, {}, {"ax"}, {}),
            Stmt(56, {"ax"}, {"ylims"}),
            Stmt(57, {"ax"}, {"xlims"}),
            Stmt(58, {"trjs"}, {"_traj", "n"}),
            StmtFx(59, {"_traj", "ax", "max_traj_length", "n", "np", "ylims"}, {}, {"ax"}, {}),
            Stmt(63, {"cl"}, {}),
            StmtFx(64, {"_traj", "ax", "cl", "max_traj_length", "n", "np", "ylims"}, {}, {"ax"}, {}),
            StmtFx(68, {"ax", "xlims", "ylims"}, {}, {"ax"}, {}),
            StmtFx(71, {"ax", "xlims", "ylims"}, {}, {"ax"}, {}),
            StmtFx(72, {"ax"}, {}, {"ax"}, {}),
            StmtFx(73, {"ax"}, {}, {"ax"}, {}),
            StmtFx(74, {"ax"}, {}, {"ax"}, {}) >>
    [] fn = "test_feature" ->
         << StmtFx(351, {"feat"}, {}, {"feat"}, {}),
            StmtFx(352, {"args", "feat", "feat_name", "kwargs"}, {}, {"feat"}, {"add_*"}),
            Stmt(353, {"feat"}, {}),
            Stmt(354, {"feat", "lag", "n_processes", "pyemma", "reader"}, {"v"}),
            Stmt(356, {"v"}, {"s"}),
            Stmt(357, {"s"}, {}) >>
    [] fn = "score_discretization" ->
         << Stmt(479, {"init_centers"}, {"kw"}),
            StmtFx(480, {"cl", "data", "k", "kw"}, {}, {"cl"}, {}),
            Stmt(481, {"cl", "data"}, {"dtrajs"}),
            Stmt(482, {"dtrajs", "lag", "pyemma"}, {"msm"}),
            Stmt(483, {"msm", "n_processes"}, {"score_k"}),
            Stmt(484, {"dtrajs", "msm", "score_k"}, {"s_cv"}),
            Stmt(485, {"dtrajs", "msm", "score_k"}, {"s"}),
            StmtFx(486, {"k", "results_msm", "s", "s_cv"}, {}, {"results_msm"}, {}) >>
    [] fn = "stop_spin" ->
         << StmtFx(131, {"p"}, {}, {"p"}, {}) >>

\* if ax is None: (line 52) guards line 53; if cl is not None: (line 63)
\* guards line 64.  The call sites pass objects, never None.
Skipped(fn, ln, passed) ==
  /\ fn = "plot_1D_histogram_trajectories"
  /\ (ln = 53 /\ "ax" \in passed) \/ (ln = 64 /\ "cl" \notin passed)

\* Names bound by the import statements of the notebooks.
Modules == {"np", "plt", "pyemma", "mdshare", "mdtraj", "nglview", "os", "mpl"}

\* A name of a function body is local when it is a parameter or is assigned
\* somewhere in the body.
IsLocal_ParamsOnly(n, fn) == n \in Params(fn)

IsLocal(n, fn) == n \in Params(fn) \cup UNION {s.w : s \in Range(FunctionBody(fn))}

\* The calls the notebooks make: args pairs a parameter with a name of the
\* notebook namespace its argument expression reads.
CallSites ==
  { [nb |-> "07", fn |-> "plot_1D_histogram_trajectories", ln |-> 87,
     args |-> {<<"trjs", "trjs">>, <<"cl", "cl">>, <<"ax", "ax">>}],
    [nb |-> "07", fn |-> "plot_1D_histogram_trajectories", ln |-> 128,
     args |-> {<<"trjs", "trjs">>, <<"max_traj_length", "trjs">>}],
    [nb |-> "07", fn |-> "plot_1D_histogram_trajectories", ln |-> 161,
     args |-> {<<"trjs", "trjs">>, <<"cl", "cl">>, <<"max_traj_length", "trjs">>, <<"ax", "ax">>}],
    [nb |-> "07", fn |-> "plot_1D_histogram_trajectories", ln |-> 243,
     args |-> {<<"trjs", "trjs">>, <<"max_traj_length", "trjs">>}],
    [nb |-> "07", fn |-> "plot_1D_histogram_trajectories", ln |-> 265,
     args |-> {<<"trjs", "trjs">>, <<"cl", "cl">>, <<"max_traj_length", "trjs">>, <<"ax", "ax">>}],
    [nb |-> "vamp", fn |-> "test_feature", ln |-> 372,
     args |-> {<<"feat_name", "feat_name">>, <<"args", "args">>, <<"kwargs", "kw">>}],
    [nb |-> "vamp", fn |-> "score_discretization", ln |-> 491,
     args |-> {<<"k", "n_clusters">>}],
    [nb |-> "vamp", fn |-> "score_discretization", ln |-> 498,
     args |-> {<<"k", "k">>, <<"init_centers", "new_initial_centers">>}],
    [nb |-> "01", fn |-> "stop_spin", ln |-> 132, args |-> {}],
    [nb |-> "01", fn |-> "stop_spin", ln |-> 436, args |-> {}] }

\* The entries of features the loop of line 370 passes to test_feature.
Features ==
  {"backbone_torsions", "sidechain_torsions", "distances_ca", "distances", "contacts"}

Passed(site) == {a[1] : a \in site.args}

ArgNames(site, param) == {a[2] : a \in {b \in site.args : b[1] = param}}

InitCall ==
  /\ \E site \in CallSites :
       \E feature \in IF site.fn = "test_feature" THEN Features ELSE {""} :
         /\ nb = site.nb
         /\ obs = [pc |-> "call", site |-> site, feature |-> feature, i |-> 1,
                   globalsRead |-> {}, modulesRead |-> {},
                   globalsMutated |-> {}, argsMutated |-> {}, origins |-> {}]
  /\ cell = 1
  /\ stmt = 1
  /\ running = FALSE
  /\ ns = [n \in Names |-> 0]
  /\ prov = [n \in Names |-> {}]
  /\ errs = {}
  /\ timers = {}
  /\ lastExec = NoExec
  /\ disk = {}

\* The call binds the parameters and enters the body.
EnterBody ==
  /\ obs.pc = "call"
  /\ obs' = [obs EXCEPT !.pc = "body"]
  /\ UNCHANGED kernelVars

\* One statement of the body.
BodyStep ==
  /\ obs.pc = "body"
  /\ obs.i <= Len(FunctionBody(obs.site.fn))
  /\ LET fn == obs.site.fn
         s == FunctionBody(fn)[obs.i]
         free == {n \in s.r : ~IsLocal(n, fn)}
     IN IF Skipped(fn, s.ln, Passed(obs.site))
          THEN obs' = [obs EXCEPT !.i = @ + 1]
          ELSE obs' = [obs EXCEPT
                 !.i = @ + 1,
                 !.globalsRead = @ \cup (free \ Modules),
                 !.modulesRead = @ \cup (free \cap Modules),
                 !.globalsMutated = @ \cup {n \in s.m : ~IsLocal(n, fn)},
                 !.argsMutated = @ \cup
                    UNION {ArgNames(obs.site, n) : n \in {l \in s.m : IsLocal(l, fn)}},
                 !.origins = @ \cup
                    {IF o = "add_*" THEN "add_" \o obs.feature ELSE o : o \in s.o}]
  /\ UNCHANGED kernelVars

\* The body has run to its end (or to its return statement).
ReturnFromCall ==
  /\ obs.pc = "body"
  /\ obs.i > Len(FunctionBody(obs.site.fn))
  /\ obs' = [obs EXCEPT !.pc = "returned"]
  /\ UNCHANGED kernelVars

NextCall ==
  \/ EnterBody
  \/ BodyStep
  \/ ReturnFromCall

SpecCall == InitCall /\ [][NextCall]_vars

-----------------------------------------------------------------------------
(* Properties of the function calls.                                       *)

-----------------------------------------------------------------------------
(* Properties of the files a kernel session creates.                       *)

FetchesOf(id) == {g \in Fetches : g.nb = id}

\* C12, as stated: every dataset fetched with mdshare.fetch is a .npz, .pdb,
\* .dcd or .xtc file and is placed in the working directory 'data'.
C12_FetchKinds ==
  \A f \in disk :
    f.kind = "dataset" => f.ext \in {"npz", "pdb", "dcd", "xtc"} /\ f.dir = "data"

\* C12, amended: every dataset fetched with mdshare.fetch is a .npz, .npy,
\* .pdb, .dcd or .xtc file and is placed in the working directory 'data';
\* the .npy files are the two double-well trajectory sets of notebook 07.
\* A notebook run to its end has fetched every file its cells ask for.
C12_FetchKindsWithNpy ==
  /\ \A f \in disk :
       f.kind = "dataset" =>
         /\ f.ext \in {"npz", "npy", "pdb", "dcd", "xtc"}
         /\ f.dir = "data"
         /\ f.ext = "npy" =>
              /\ nb = "07"
              /\ f.name \in {"doublewell_oneway.npy", "doublewell_disconnected.npy"}
  /\ Finished =>
       \A g \in FetchesOf(nb) : \E f \in disk : f.name = g.name /\ f.dir = g.dir

\* Notebook 07 has fetched its two .npy files into 'data'.
C12_NpyFetched ==
  /\ nb = "07"
  /\ \E f \in disk : f.name = "doublewell_oneway.npy" /\ f.ext = "npy" /\ f.dir = "data"
  /\ \E f \in disk : f.name = "doublewell_disconnected.npy" /\ f.ext = "npy" /\ f.dir = "data"

\* C13: a run persists no analysis result: every file it has created is a
\* dataset one of its mdshare.fetch calls asked for; in particular the
\* save_traj call of notebook 06 (outfile=None) binds markov_samples and
\* writes nothing.
C13_NothingPersisted ==
  \A f \in disk :
    /\ f.kind = "dataset"
    /\ \E g \in FetchesOf(nb) : g.name = f.name /\ g.dir = f.dir

\* Notebook 06 has run its save_traj call and holds the samples in memory.
C13_SamplesInMemory ==
  /\ nb = "06"
  /\ ns["markov_samples"] = 1305
  /\ lastExec.ln = 1305
  /\ disk # {}

-----------------------------------------------------------------------------
(* Part 4 (specification SpecWithin): the sentence that ends Exercise 1 of *)
(* notebook 06.  Floats are numbers or NaN; every comparison with NaN is   *)
(* False.                                                                  *)

\* experiment2 = 5.0
experiment2 == 5

\* The bounds of the interval lie at most this far from experiment2.
MaxDev == 4

Num(v) == [nan |-> FALSE, v |-> v]

NotANumber == [nan |-> TRUE, v |-> 0]

Floats == {Num(v) : v \in (experiment2 - MaxDev)..(experiment2 + MaxDev)} \cup {NotANumber}

\* x < y and x > y on floats
FloatLt(x, y) == ~x.nan /\ ~y.nan /\ x.v < y.v

FloatGt(x, y) == ~x.nan /\ ~y.nan /\ x.v > y.v

FloatLe(x, y) == ~x.nan /\ ~y.nan /\ x.v <= y.v

\* return ' not ' if x < a or x > b else ' '
is_within(x, a, b) == IF FloatLt(x, a) \/ FloatGt(x, b) THEN " not " ELSE " "

\* bayesian_msm_ci95 = bayesian_msm.sample_conf(...): two floats.
InitWithin ==
  /\ \E lower, upper \in Floats :
       obs = [pc |-> "ci", x |-> Num(experiment2), ci |-> <<lower, upper>>, printed |-> ""]
  /\ nb = "06"
  /\ cell = 1
  /\ stmt = 1
  /\ running = FALSE
  /\ ns = [n \in Names |-> 0]
  /\ prov = [n \in Names |-> {}]
  /\ errs = {}
  /\ timers = {}
  /\ lastExec = NoExec
  /\ disk = {}

\* print('Experiment is{}within the 95% CI of the Bayesian MSM'.format(
\*     is_within(experiment2, *bayesian_msm_ci95)))
PrintWithin ==
  /\ obs.pc = "ci"
  /\ obs' = [obs EXCEPT
       !.pc = "printed",
       !.printed = "Experiment is" \o is_within(obs.x, obs.ci[1], obs.ci[2])
                     \o "within the 95% CI of the Bayesian MSM"]
  /\ UNCHANGED kernelVars

NextWithin == PrintWithin

SpecWithin == InitWithin /\ [][NextWithin]_vars

SaysWithin == obs.printed = "Experiment is within the 95% CI of the Bayesian MSM"

SaysNotWithin == obs.printed = "Experiment is not within the 95% CI of the Bayesian MSM"

C14_RightOnNumbers ==
  (obs.pc = "printed" /\ ~obs.ci[1].nan /\ ~obs.ci[2].nan) =>
    /\ SaysWithin <=> (obs.ci[1].v <= obs.x.v /\ obs.x.v <= obs.ci[2].v)
    /\ SaysNotWithin <=> ~SaysWithin

-----------------------------------------------------------------------------
(* Part 5 (specification SpecFingerprint): new_observable(timescales,      *)
(* amplitudes) of Exercise 5 of notebook 06 on small integer arrays.       *)

\* Longest array, and largest timescale or amplitude.
MaxProcesses == 3

MaxValue == 1

\* a[1:]
Slice_FromFirst(a) == a

SliceFromSecond(a) == SubSeq(a, 2, Len(a))

\* a.dot(b) of two 1-d arrays: the sum of the products; shapes that differ
\* raise ValueError.
RECURSIVE DotAligned(_, _)
DotAligned(a, b) ==
  IF Len(a) = 0 THEN 0 ELSE Head(a) * Head(b) + DotAligned(Tail(a), Tail(b))

Dot(a, b) == IF Len(a) = Len(b) THEN DotAligned(a, b) ELSE "ValueError"

\* def new_observable(timescales, amplitudes):
\*     return timescales[1:].dot(amplitudes[1:])
new_observable_of_timescales(timescales, amplitudes) ==
  Dot(SliceFromSecond(timescales), SliceFromSecond(amplitudes))

Arrays == SeqsUpTo(0..MaxValue, MaxProcesses)

\* timescales, amplitudes = msm.fingerprint_correlation(...)
InitFingerprint ==
  /\ \E timescales, amplitudes \in Arrays :
       obs = [pc |-> "arrays", timescales |-> timescales, amplitudes |-> amplitudes,
              value |-> 0]
  /\ nb = "06"
  /\ cell = 1
  /\ stmt = 1
  /\ running = FALSE
  /\ ns = [n \in Names |-> 0]
  /\ prov = [n \in Names |-> {}]
  /\ errs = {}
  /\ timers = {}
  /\ lastExec = NoExec
  /\ disk = {}

\* print('Value of new observable ...'.format(new_observable(timescales, amplitudes)))
CallNewObservable ==
  /\ obs.pc = "arrays"
  /\ obs' = [obs EXCEPT
       !.pc = "value",
       !.value = new_observable_of_timescales(obs.timescales, obs.amplitudes)]
  /\ UNCHANGED kernelVars

NextFingerprint == CallNewObservable

SpecFingerprint == InitFingerprint /\ [][NextFingerprint]_vars

\* The sum of timescale_i * amplitude_i over the processes i of the set I.
RECURSIVE SumOfProducts(_)
SumOfProducts(I) ==
  IF I = {} THEN 0
  ELSE LET i == CHOOSE j \in I : TRUE
       IN obs.timescales[i] * obs.amplitudes[i] + SumOfProducts(I \ {i})

\* C15: for two arrays of equal length N >= 1, new_observable(timescales,
\* amplitudes) is the sum over i = 2..N of timescale_i * amplitude_i, the
\* first process left out; for N = 1 it is 0.
C15_SumWithoutFirstProcess ==
  (obs.pc = "value" /\ Len(obs.timescales) = Len(obs.amplitudes)) =>
    /\ obs.value = SumOfProducts(2..Len(obs.timescales))
    /\ Len(obs.timescales) = 1 => obs.value = 0

\* The first process has a non-zero product and the value has been computed
\* from the others.
C15_FirstProcessLeftOut ==
  /\ obs.pc = "value"
  /\ Len(obs.timescales) = Len(obs.amplitudes)
  /\ Len(obs.timescales) >= 2
  /\ obs.timescales[1] * obs.amplitudes[1] # 0
  /\ obs.value # 0

-----------------------------------------------------------------------------
(* Part 6 (specification SpecTica): the lag time of the broken TICA of     *)
(* notebook 07.  A trajectory is given by its number of frames.            *)

\* lag = data[0].shape[0] - 100
LagOffset == 100

\* The trajectories have at most this many frames more or less than
\* LagOffset.
MaxExtra == 3

FrameCounts == (LagOffset - MaxExtra)..(LagOffset + MaxExtra)

\* data[0].shape[0] - 100
Lag_OffsetOnly(data) == LagOffset

Lag(data) == data[1] - LagOffset

\* The frame pairs (x_t, x_{t+lag}) a trajectory of n frames gives.
LaggedPairs(n, lag) == IF n > lag THEN n - lag ELSE 0

\* data = pyemma.coordinates.load(files, features=feat): one array for each
\* trajectory file.
InitTica ==
  /\ \E data \in SeqsUpTo(FrameCounts, MaxTrajs) :
       obs = [pc |-> "loaded", data |-> data, lag |-> 0, pairs |-> <<>>]
  /\ nb = "07"
  /\ cell = 1
  /\ stmt = 1
  /\ running = FALSE
  /\ ns = [n \in Names |-> 0]
  /\ prov = [n \in Names |-> {}]
  /\ errs = {}
  /\ timers = {}
  /\ lastExec = NoExec
  /\ disk = {}

\* The argument lag=data[0].shape[0] - 100 is evaluated.
EvaluateLag ==
  /\ obs.pc = "loaded"
  /\ obs' = [obs EXCEPT !.pc = "lag", !.lag = Lag(obs.data)]
  /\ UNCHANGED kernelVars

\* tica = pyemma.coordinates.tica(data, lag=..., dim=2) pairs the frames of
\* every trajectory at that lag (a lag that is not positive is refused).
EstimateTica ==
  /\ obs.pc = "lag"
  /\ IF obs.lag > 0
       THEN obs' = [obs EXCEPT
              !.pc = "tica",
              !.pairs = [k \in 1..Len(obs.data) |-> LaggedPairs(obs.data[k], obs.lag)]]
       ELSE obs' = [obs EXCEPT !.pc = "refused"]
  /\ UNCHANGED kernelVars

NextTica ==
  \/ EvaluateLag
  \/ EstimateTica

SpecTica == InitTica /\ [][NextTica]_vars

\* All trajectories have the N frames of the first one, and N > 100.
AllOfLengthN ==
  /\ \A k \in 1..Len(obs.data) : obs.data[k] = obs.data[1]
  /\ obs.data[1] > 100

\* C16: lag = N - 100 with N the number of frames of the first trajectory;
\* when all trajectories have N > 100 frames, 0 < lag < N and every
\* trajectory is left with exactly 100 time-lagged frame pairs.
C16_LagLeavesHundredPairs ==
  /\ obs.pc \in {"lag", "tica", "refused"} => obs.lag = obs.data[1] - 100
  /\ (obs.pc \in {"lag", "tica", "refused"} /\ AllOfLengthN) =>
       /\ 0 < obs.lag /\ obs.lag < obs.data[1]
       /\ obs.pc # "refused"
  /\ (obs.pc = "tica" /\ AllOfLengthN) =>
       \A k \in 1..Len(obs.data) :
         /\ obs.pairs[k] = 100
         /\ Cardinality({t \in 1..obs.data[k] : t + obs.lag <= obs.data[k]}) = 100

\* Two trajectories of N > 100 frames each have been paired at lag N - 100.
C16_TwoTrajectoriesPaired ==
  /\ obs.pc = "tica"
  /\ Len(obs.data) >= 2
  /\ AllOfLengthN
  /\ obs.lag = obs.data[1] - 100
  /\ obs.lag >= 2

-----------------------------------------------------------------------------
(* Part 7 (specification SpecCI): the build job of the CI configuration.   *)
(* The job runs in `parallelism` containers; each container runs the steps *)
(* of the job on its own, and a step that fails ends the job there.        *)

\* jobs.build.steps
Steps ==
  << "checkout", "conda_config", "conda install conda-build", "conda build .",
     "store_test_results" >>

\* parallelism: 4
parallelism == 4

Containers == 1..parallelism

\* A container starts the steps in the order of the list, each after the
\* one before it has completed.
CanStart_AnyOrder(c, i) == ~c.running /\ ~c.failed /\ Steps[i] \notin Range(c.started)

CanStart(c, i) == ~c.running /\ ~c.failed /\ i = Len(c.completed) + 1

InitCI ==
  /\ obs = [pc |-> "ci",
            containers |-> [k \in Containers |->
               [running |-> FALSE, failed |-> FALSE, started |-> <<>>, completed |-> <<>>]]]
  /\ nb = "01"
  /\ cell = 1
  /\ stmt = 1
  /\ running = FALSE
  /\ ns = [n \in Names |-> 0]
  /\ prov = [n \in Names |-> {}]
  /\ errs = {}
  /\ timers = {}
  /\ lastExec = NoExec
  /\ disk = {}

StartStep ==
  \E k \in Containers, i \in 1..Len(Steps) :
    /\ CanStart(obs.containers[k], i)
    /\ obs' = [obs EXCEPT !.containers[k].running = TRUE,
                          !.containers[k].started = Append(@, Steps[i])]
    /\ UNCHANGED kernelVars

\* The running step exits with status 0.
CompleteStep ==
  \E k \in Containers :
    /\ obs.containers[k].running
    /\ obs' = [obs EXCEPT
         !.containers[k].running = FALSE,
         !.containers[k].completed =
            Append(@, obs.containers[k].started[Len(obs.containers[k].started)])]
    /\ UNCHANGED kernelVars

\* The running step fails; the remaining steps of that container are not run.
FailStep ==
  \E k \in Containers :
    /\ obs.containers[k].running
    /\ obs' = [obs EXCEPT !.containers[k].running = FALSE,
                          !.containers[k].failed = TRUE]
    /\ UNCHANGED kernelVars

NextCI ==
  \/ StartStep
  \/ CompleteStep
  \/ FailStep

SpecCI == InitCI /\ [][NextCI]_vars

IsPrefix(s, t) == Len(s) <= Len(t) /\ \A i \in 1..Len(s) : s[i] = t[i]

\* C17: every container runs the steps in the one order checkout,
\* conda_config, conda install conda-build, conda build ., store_test_results:
\* conda build starts only after the channel configuration and the
\* installation of conda-build have completed, and test results are stored
\* only after the build step has completed.
C17_StepsInOrder ==
  \A k \in Containers :
    LET c == obs.containers[k] IN
    /\ IsPrefix(c.started, Steps)
    /\ IsPrefix(c.completed, c.started)
    /\ "conda build ." \in Range(c.started) =>
         {"checkout", "conda_config", "conda install conda-build"} \subseteq Range(c.completed)
    /\ "store_test_results" \in Range(c.started) => "conda build ." \in Range(c.completed)

\* One container has stored its test results while another has not yet
\* configured conda.
C17_ResultsStored ==
  \E k, j \in Containers :
    /\ obs.containers[k].completed = Steps
    /\ "conda_config" \notin Range(obs.containers[j].started)

-----------------------------------------------------------------------------
=============================================================================
